---- MODULE Spec2Model ----
(***************************************************************************)
(* Model of the hopter procedural macros `#[main]` and `#[handler(IRQ)]`   *)
(* (src/src/lib.rs): signature validation, IRQ name resolution, synthesis  *)
(* of the trampolines, and the behaviour of the generated handler entry    *)
(* sequence and dispatch trampoline on a Cortex-M register/stack machine.  *)
(*                                                                         *)
(* Strings the code inspects character by character (identifiers, IRQ      *)
(* names, generated symbols) are sequences of one-character strings, so    *)
(* that `to_lowercase`, `format!` and the case-sensitive registry lookup   *)
(* are computed rather than assumed.  Messages and type names, which the   *)
(* code only passes along, are plain strings.                              *)
(***************************************************************************)
EXTENDS Integers, Sequences, FiniteSets, TLC

VARIABLES
    feature,    \* the MCU model feature the crate is built with ("none" if unset)
    macro,      \* which attribute macro is expanding: "main" or "handler"
    item,       \* the `item` token stream, as syn would parse it
    attr,       \* the `attr` token stream, as syn would parse it
    pc,         \* position of the expansion inside `main` / `handler`
    local,      \* the local bindings of the expanding macro
    panic_msg,  \* message of the panic that aborted the expansion, or NoPanic
    output,     \* the token stream the macro returned (a sequence of fragments)
    cpu,        \* registers of the core running the generated entry sequence
    mem,        \* memory words: the TLS fields and the active stack
    run,        \* position of the generated code being executed
    isr_unwinding, \* hopter's "an ISR is being unwound" flag
    ghost,      \* history of the run: values at entry, observations
    preempted   \* the handlers a higher priority interrupt has preempted,
                \* outermost first

vars == <<feature, macro, item, attr, pc, local, panic_msg, output,
          cpu, mem, run, isr_unwinding, ghost, preempted>>

macroVars == <<feature, macro, item, attr, pc, local, panic_msg, output>>
runVars == <<cpu, mem, run, isr_unwinding, ghost, preempted>>

-----------------------------------------------------------------------------
(* Bounds of the model.                                                    *)

\* Most parameters a declaration under test has.
MaxParams == 2
\* Most arguments an attribute argument list under test has.
MaxArgs == 2
\* Most elements of a tuple return type under test.
MaxTupleElems == 1

-----------------------------------------------------------------------------
(* Characters and strings.                                                 *)

RECURSIVE Concat(_)
\* Concatenation of a sequence of character strings (what format! does with
\* the pieces of a template and its arguments).
Concat(parts) ==
    IF parts = <<>> THEN <<>> ELSE Head(parts) \o Concat(Tail(parts))

\* char::to_lowercase restricted to the characters identifiers are made of.
LowerOfChar ==
    [c \in {"A","B","C","D","E","F","G","H","I","J","K","L","M",
            "N","O","P","Q","R","S","T","U","V","W","X","Y","Z"} |->
        CASE c = "A" -> "a" [] c = "B" -> "b" [] c = "C" -> "c" [] c = "D" -> "d"
          [] c = "E" -> "e" [] c = "F" -> "f" [] c = "G" -> "g" [] c = "H" -> "h"
          [] c = "I" -> "i" [] c = "J" -> "j" [] c = "K" -> "k" [] c = "L" -> "l"
          [] c = "M" -> "m" [] c = "N" -> "n" [] c = "O" -> "o" [] c = "P" -> "p"
          [] c = "Q" -> "q" [] c = "R" -> "r" [] c = "S" -> "s" [] c = "T" -> "t"
          [] c = "U" -> "u" [] c = "V" -> "v" [] c = "W" -> "w" [] c = "X" -> "x"
          [] c = "Y" -> "y" [] c = "Z" -> "z"]

\* str::to_lowercase (lib.rs 141): every character mapped to its lowercase.
to_lowercase(s) ==
    [i \in 1..Len(s) |-> IF s[i] \in DOMAIN LowerOfChar THEN LowerOfChar[s[i]] ELSE s[i]]

-----------------------------------------------------------------------------
(* The registry of supported IRQ names, one table per MCU model feature.   *)

\* lib.rs 329-385: #[cfg(feature = "stm32f401")] const SUPPORTED_IRQS: [&str; 55]
SUPPORTED_IRQS_stm32f401 ==
    {<<"P","V","D">>, <<"T","A","M","P","_","S","T","A","M","P">>, <<"R","T","C","_","W","K","U","P">>,
      <<"F","L","A","S","H">>, <<"R","C","C">>, <<"E","X","T","I","0">>, <<"E","X","T","I","1">>,
      <<"E","X","T","I","2">>, <<"E","X","T","I","3">>, <<"E","X","T","I","4">>,
      <<"D","M","A","1","_","S","T","R","E","A","M","0">>, <<"D","M","A","1","_","S","T","R","E","A","M","1">>,
      <<"D","M","A","1","_","S","T","R","E","A","M","2">>, <<"D","M","A","1","_","S","T","R","E","A","M","3">>,
      <<"D","M","A","1","_","S","T","R","E","A","M","4">>, <<"D","M","A","1","_","S","T","R","E","A","M","5">>,
      <<"D","M","A","1","_","S","T","R","E","A","M","6">>, <<"A","D","C">>, <<"E","X","T","I","9","_","5">>,
      <<"T","I","M","1","_","B","R","K","_","T","I","M","9">>,
      <<"T","I","M","1","_","U","P","_","T","I","M","1","0">>,
      <<"T","I","M","1","_","T","R","G","_","C","O","M","_","T","I","M","1","1">>,
      <<"T","I","M","1","_","C","C">>, <<"T","I","M","2">>, <<"T","I","M","3">>, <<"T","I","M","4">>,
      <<"I","2","C","1","_","E","V">>, <<"I","2","C","1","_","E","R">>, <<"I","2","C","2","_","E","V">>,
      <<"I","2","C","2","_","E","R">>, <<"S","P","I","1">>, <<"S","P","I","2">>, <<"U","S","A","R","T","1">>,
      <<"U","S","A","R","T","2">>, <<"E","X","T","I","1","5","_","1","0">>,
      <<"R","T","C","_","A","L","A","R","M">>, <<"O","T","G","_","F","S","_","W","K","U","P">>,
      <<"D","M","A","1","_","S","T","R","E","A","M","7">>, <<"S","D","I","O">>, <<"T","I","M","5">>,
      <<"S","P","I","3">>, <<"D","M","A","2","_","S","T","R","E","A","M","0">>,
      <<"D","M","A","2","_","S","T","R","E","A","M","1">>, <<"D","M","A","2","_","S","T","R","E","A","M","2">>,
      <<"D","M","A","2","_","S","T","R","E","A","M","3">>, <<"D","M","A","2","_","S","T","R","E","A","M","4">>,
      <<"O","T","G","_","F","S">>, <<"D","M","A","2","_","S","T","R","E","A","M","5">>,
      <<"D","M","A","2","_","S","T","R","E","A","M","6">>, <<"D","M","A","2","_","S","T","R","E","A","M","7">>,
      <<"U","S","A","R","T","6">>, <<"I","2","C","3","_","E","V">>, <<"I","2","C","3","_","E","R">>,
      <<"F","P","U">>, <<"S","P","I","4">>}

\* lib.rs 388-472: #[cfg(feature = "stm32f405")] const SUPPORTED_IRQS: [&str; 83]
SUPPORTED_IRQS_stm32f405 ==
    {<<"W","W","D","G">>, <<"P","V","D">>, <<"T","A","M","P","_","S","T","A","M","P">>,
      <<"R","T","C","_","W","K","U","P">>, <<"R","C","C">>, <<"E","X","T","I","0">>, <<"E","X","T","I","1">>,
      <<"E","X","T","I","2">>, <<"E","X","T","I","3">>, <<"E","X","T","I","4">>,
      <<"D","M","A","1","_","S","T","R","E","A","M","0">>, <<"D","M","A","1","_","S","T","R","E","A","M","1">>,
      <<"D","M","A","1","_","S","T","R","E","A","M","2">>, <<"D","M","A","1","_","S","T","R","E","A","M","3">>,
      <<"D","M","A","1","_","S","T","R","E","A","M","4">>, <<"D","M","A","1","_","S","T","R","E","A","M","5">>,
      <<"D","M","A","1","_","S","T","R","E","A","M","6">>, <<"A","D","C">>, <<"C","A","N","1","_","T","X">>,
      <<"C","A","N","1","_","R","X","0">>, <<"C","A","N","1","_","R","X","1">>,
      <<"C","A","N","1","_","S","C","E">>, <<"E","X","T","I","9","_","5">>,
      <<"T","I","M","1","_","B","R","K","_","T","I","M","9">>,
      <<"T","I","M","1","_","U","P","_","T","I","M","1","0">>,
      <<"T","I","M","1","_","T","R","G","_","C","O","M","_","T","I","M","1","1">>,
      <<"T","I","M","1","_","C","C">>, <<"T","I","M","2">>, <<"T","I","M","3">>, <<"T","I","M","4">>,
      <<"I","2","C","1","_","E","V">>, <<"I","2","C","1","_","E","R">>, <<"I","2","C","2","_","E","V">>,
      <<"I","2","C","2","_","E","R">>, <<"S","P","I","1">>, <<"S","P","I","2">>, <<"U","S","A","R","T","1">>,
      <<"U","S","A","R","T","2">>, <<"U","S","A","R","T","3">>, <<"E","X","T","I","1","5","_","1","0">>,
      <<"R","T","C","_","A","L","A","R","M">>, <<"O","T","G","_","F","S","_","W","K","U","P">>,
      <<"T","I","M","8","_","B","R","K","_","T","I","M","1","2">>,
      <<"T","I","M","8","_","U","P","_","T","I","M","1","3">>,
      <<"T","I","M","8","_","T","R","G","_","C","O","M","_","T","I","M","1","4">>,
      <<"T","I","M","8","_","C","C">>, <<"D","M","A","1","_","S","T","R","E","A","M","7">>,
      <<"F","S","M","C">>, <<"S","D","I","O">>, <<"T","I","M","5">>, <<"S","P","I","3">>,
      <<"U","A","R","T","4">>, <<"U","A","R","T","5">>, <<"T","I","M","6","_","D","A","C">>,
      <<"T","I","M","7">>, <<"D","M","A","2","_","S","T","R","E","A","M","0">>,
      <<"D","M","A","2","_","S","T","R","E","A","M","1">>, <<"D","M","A","2","_","S","T","R","E","A","M","2">>,
      <<"D","M","A","2","_","S","T","R","E","A","M","3">>, <<"D","M","A","2","_","S","T","R","E","A","M","4">>,
      <<"E","T","H">>, <<"E","T","H","_","W","K","U","P">>, <<"C","A","N","2","_","T","X">>,
      <<"C","A","N","2","_","R","X","0">>, <<"C","A","N","2","_","R","X","1">>,
      <<"C","A","N","2","_","S","C","E">>, <<"O","T","G","_","F","S">>,
      <<"D","M","A","2","_","S","T","R","E","A","M","5">>, <<"D","M","A","2","_","S","T","R","E","A","M","6">>,
      <<"D","M","A","2","_","S","T","R","E","A","M","7">>, <<"U","S","A","R","T","6">>,
      <<"I","2","C","3","_","E","V">>, <<"I","2","C","3","_","E","R">>,
      <<"O","T","G","_","H","S","_","E","P","1","_","O","U","T">>,
      <<"O","T","G","_","H","S","_","E","P","1","_","I","N">>, <<"O","T","G","_","H","S","_","W","K","U","P">>,
      <<"O","T","G","_","H","S">>, <<"D","C","M","I">>, <<"C","R","Y","P">>,
      <<"H","A","S","H","_","R","N","G">>, <<"F","P","U">>, <<"L","T","D","C">>,
      <<"L","T","D","C","_","E","R">>}

\* lib.rs 475-559: #[cfg(feature = "stm32f407")] const SUPPORTED_IRQS: [&str; 83]
SUPPORTED_IRQS_stm32f407 ==
    {<<"W","W","D","G">>, <<"P","V","D">>, <<"T","A","M","P","_","S","T","A","M","P">>,
      <<"R","T","C","_","W","K","U","P">>, <<"R","C","C">>, <<"E","X","T","I","0">>, <<"E","X","T","I","1">>,
      <<"E","X","T","I","2">>, <<"E","X","T","I","3">>, <<"E","X","T","I","4">>,
      <<"D","M","A","1","_","S","T","R","E","A","M","0">>, <<"D","M","A","1","_","S","T","R","E","A","M","1">>,
      <<"D","M","A","1","_","S","T","R","E","A","M","2">>, <<"D","M","A","1","_","S","T","R","E","A","M","3">>,
      <<"D","M","A","1","_","S","T","R","E","A","M","4">>, <<"D","M","A","1","_","S","T","R","E","A","M","5">>,
      <<"D","M","A","1","_","S","T","R","E","A","M","6">>, <<"A","D","C">>, <<"C","A","N","1","_","T","X">>,
      <<"C","A","N","1","_","R","X","0">>, <<"C","A","N","1","_","R","X","1">>,
      <<"C","A","N","1","_","S","C","E">>, <<"E","X","T","I","9","_","5">>,
      <<"T","I","M","1","_","B","R","K","_","T","I","M","9">>,
      <<"T","I","M","1","_","U","P","_","T","I","M","1","0">>,
      <<"T","I","M","1","_","T","R","G","_","C","O","M","_","T","I","M","1","1">>,
      <<"T","I","M","1","_","C","C">>, <<"T","I","M","2">>, <<"T","I","M","3">>, <<"T","I","M","4">>,
      <<"I","2","C","1","_","E","V">>, <<"I","2","C","1","_","E","R">>, <<"I","2","C","2","_","E","V">>,
      <<"I","2","C","2","_","E","R">>, <<"S","P","I","1">>, <<"S","P","I","2">>, <<"U","S","A","R","T","1">>,
      <<"U","S","A","R","T","2">>, <<"U","S","A","R","T","3">>, <<"E","X","T","I","1","5","_","1","0">>,
      <<"R","T","C","_","A","L","A","R","M">>, <<"O","T","G","_","F","S","_","W","K","U","P">>,
      <<"T","I","M","8","_","B","R","K","_","T","I","M","1","2">>,
      <<"T","I","M","8","_","U","P","_","T","I","M","1","3">>,
      <<"T","I","M","8","_","T","R","G","_","C","O","M","_","T","I","M","1","4">>,
      <<"T","I","M","8","_","C","C">>, <<"D","M","A","1","_","S","T","R","E","A","M","7">>,
      <<"F","S","M","C">>, <<"S","D","I","O">>, <<"T","I","M","5">>, <<"S","P","I","3">>,
      <<"U","A","R","T","4">>, <<"U","A","R","T","5">>, <<"T","I","M","6","_","D","A","C">>,
      <<"T","I","M","7">>, <<"D","M","A","2","_","S","T","R","E","A","M","0">>,
      <<"D","M","A","2","_","S","T","R","E","A","M","1">>, <<"D","M","A","2","_","S","T","R","E","A","M","2">>,
      <<"D","M","A","2","_","S","T","R","E","A","M","3">>, <<"D","M","A","2","_","S","T","R","E","A","M","4">>,
      <<"E","T","H">>, <<"E","T","H","_","W","K","U","P">>, <<"C","A","N","2","_","T","X">>,
      <<"C","A","N","2","_","R","X","0">>, <<"C","A","N","2","_","R","X","1">>,
      <<"C","A","N","2","_","S","C","E">>, <<"O","T","G","_","F","S">>,
      <<"D","M","A","2","_","S","T","R","E","A","M","5">>, <<"D","M","A","2","_","S","T","R","E","A","M","6">>,
      <<"D","M","A","2","_","S","T","R","E","A","M","7">>, <<"U","S","A","R","T","6">>,
      <<"I","2","C","3","_","E","V">>, <<"I","2","C","3","_","E","R">>,
      <<"O","T","G","_","H","S","_","E","P","1","_","O","U","T">>,
      <<"O","T","G","_","H","S","_","E","P","1","_","I","N">>, <<"O","T","G","_","H","S","_","W","K","U","P">>,
      <<"O","T","G","_","H","S">>, <<"D","C","M","I">>, <<"C","R","Y","P">>,
      <<"H","A","S","H","_","R","N","G">>, <<"F","P","U">>, <<"L","C","D","_","T","F","T">>,
      <<"L","C","D","_","T","F","T","_","1">>}

\* lib.rs 562-617: #[cfg(feature = "stm32f410")] const SUPPORTED_IRQS: [&str; 54]
SUPPORTED_IRQS_stm32f410 ==
    {<<"W","W","D","G">>, <<"P","V","D">>, <<"T","A","M","P","_","S","T","A","M","P">>,
      <<"R","T","C","_","W","K","U","P">>, <<"F","L","A","S","H">>, <<"R","C","C">>, <<"E","X","T","I","0">>,
      <<"E","X","T","I","1">>, <<"E","X","T","I","2">>, <<"E","X","T","I","3">>, <<"E","X","T","I","4">>,
      <<"D","M","A","1","_","S","T","R","E","A","M","0">>, <<"D","M","A","1","_","S","T","R","E","A","M","1">>,
      <<"D","M","A","1","_","S","T","R","E","A","M","2">>, <<"D","M","A","1","_","S","T","R","E","A","M","3">>,
      <<"D","M","A","1","_","S","T","R","E","A","M","4">>, <<"D","M","A","1","_","S","T","R","E","A","M","5">>,
      <<"D","M","A","1","_","S","T","R","E","A","M","6">>, <<"A","D","C">>, <<"E","X","T","I","9","_","5">>,
      <<"T","I","M","1","_","B","R","K","_","T","I","M","9">>, <<"P","W","M","1","_","U","P">>,
      <<"T","I","M","1","_","T","R","G","_","C","O","M","_","T","I","M","1","1">>,
      <<"T","I","M","1","_","C","C">>, <<"I","2","C","1","_","E","V">>, <<"I","2","C","1","_","E","R">>,
      <<"I","2","C","2","_","E","V">>, <<"I","2","C","2","_","E","R">>, <<"S","P","I","1">>,
      <<"S","P","I","2">>, <<"U","S","A","R","T","1">>, <<"U","S","A","R","T","2">>,
      <<"E","X","T","I","1","5","_","1","0">>, <<"R","T","C","_","A","L","A","R","M">>,
      <<"D","M","A","1","_","S","T","R","E","A","M","7">>, <<"T","I","M","5">>,
      <<"T","I","M","6","_","D","A","C","1">>, <<"D","M","A","2","_","S","T","R","E","A","M","0">>,
      <<"D","M","A","2","_","S","T","R","E","A","M","1">>, <<"D","M","A","2","_","S","T","R","E","A","M","2">>,
      <<"D","M","A","2","_","S","T","R","E","A","M","3">>, <<"D","M","A","2","_","S","T","R","E","A","M","4">>,
      <<"E","X","T","I","1","9">>, <<"D","M","A","2","_","S","T","R","E","A","M","5">>,
      <<"D","M","A","2","_","S","T","R","E","A","M","6">>, <<"D","M","A","2","_","S","T","R","E","A","M","7">>,
      <<"U","S","A","R","T","6">>, <<"E","X","T","I","2","0">>, <<"R","N","G">>, <<"F","P","U">>,
      <<"S","P","I","5">>, <<"I","2","C","4","_","E","V">>, <<"I","2","C","4","_","E","R">>,
      <<"L","P","T","I","M","1">>}

\* lib.rs 620-678: #[cfg(feature = "stm32f411")] const SUPPORTED_IRQS: [&str; 57]
SUPPORTED_IRQS_stm32f411 ==
    {<<"W","W","D","G">>, <<"P","V","D">>, <<"T","A","M","P","_","S","T","A","M","P">>,
      <<"R","T","C","_","W","K","U","P">>, <<"F","L","A","S","H">>, <<"R","C","C">>, <<"E","X","T","I","0">>,
      <<"E","X","T","I","1">>, <<"E","X","T","I","2">>, <<"E","X","T","I","3">>, <<"E","X","T","I","4">>,
      <<"D","M","A","1","_","S","T","R","E","A","M","0">>, <<"D","M","A","1","_","S","T","R","E","A","M","1">>,
      <<"D","M","A","1","_","S","T","R","E","A","M","2">>, <<"D","M","A","1","_","S","T","R","E","A","M","3">>,
      <<"D","M","A","1","_","S","T","R","E","A","M","4">>, <<"D","M","A","1","_","S","T","R","E","A","M","5">>,
      <<"D","M","A","1","_","S","T","R","E","A","M","6">>, <<"A","D","C">>, <<"E","X","T","I","9","_","5">>,
      <<"T","I","M","1","_","B","R","K","_","T","I","M","9">>,
      <<"T","I","M","1","_","U","P","_","T","I","M","1","0">>,
      <<"T","I","M","1","_","T","R","G","_","C","O","M","_","T","I","M","1","1">>,
      <<"T","I","M","1","_","C","C">>, <<"T","I","M","2">>, <<"T","I","M","3">>, <<"T","I","M","4">>,
      <<"I","2","C","1","_","E","V">>, <<"I","2","C","1","_","E","R">>, <<"I","2","C","2","_","E","V">>,
      <<"I","2","C","2","_","E","R">>, <<"S","P","I","1">>, <<"S","P","I","2">>, <<"U","S","A","R","T","1">>,
      <<"U","S","A","R","T","2">>, <<"E","X","T","I","1","5","_","1","0">>,
      <<"R","T","C","_","A","L","A","R","M">>, <<"O","T","G","_","F","S","_","W","K","U","P">>,
      <<"D","M","A","1","_","S","T","R","E","A","M","7">>, <<"S","D","I","O">>, <<"T","I","M","5">>,
      <<"S","P","I","3">>, <<"D","M","A","2","_","S","T","R","E","A","M","0">>,
      <<"D","M","A","2","_","S","T","R","E","A","M","1">>, <<"D","M","A","2","_","S","T","R","E","A","M","2">>,
      <<"D","M","A","2","_","S","T","R","E","A","M","3">>, <<"D","M","A","2","_","S","T","R","E","A","M","4">>,
      <<"O","T","G","_","F","S">>, <<"D","M","A","2","_","S","T","R","E","A","M","5">>,
      <<"D","M","A","2","_","S","T","R","E","A","M","6">>, <<"D","M","A","2","_","S","T","R","E","A","M","7">>,
      <<"U","S","A","R","T","6">>, <<"I","2","C","3","_","E","V">>, <<"I","2","C","3","_","E","R">>,
      <<"F","P","U">>, <<"S","P","I","4">>, <<"S","P","I","5">>}

\* lib.rs 681-761: #[cfg(feature = "stm32f412")] const SUPPORTED_IRQS: [&str; 79]
SUPPORTED_IRQS_stm32f412 ==
    {<<"W","W","D","G">>, <<"P","V","D">>, <<"T","A","M","P","_","S","T","A","M","P">>,
      <<"R","T","C","_","W","K","U","P">>, <<"F","L","A","S","H">>, <<"R","C","C">>, <<"E","X","T","I","0">>,
      <<"E","X","T","I","1">>, <<"E","X","T","I","2">>, <<"E","X","T","I","3">>, <<"E","X","T","I","4">>,
      <<"D","M","A","1","_","S","T","R","E","A","M","0">>, <<"D","M","A","1","_","S","T","R","E","A","M","1">>,
      <<"D","M","A","1","_","S","T","R","E","A","M","2">>, <<"D","M","A","1","_","S","T","R","E","A","M","3">>,
      <<"D","M","A","1","_","S","T","R","E","A","M","4">>, <<"D","M","A","1","_","S","T","R","E","A","M","5">>,
      <<"D","M","A","1","_","S","T","R","E","A","M","6">>, <<"A","D","C">>, <<"C","A","N","1","_","T","X">>,
      <<"C","A","N","1","_","R","X","0">>, <<"C","A","N","1","_","R","X","1">>,
      <<"C","A","N","1","_","S","C","E">>, <<"E","X","T","I","9","_","5">>,
      <<"T","I","M","1","_","B","R","K","_","T","I","M","9">>,
      <<"T","I","M","1","_","U","P","_","T","I","M","1","0">>,
      <<"T","I","M","1","_","T","R","G","_","C","O","M","_","T","I","M","1","1">>,
      <<"T","I","M","1","_","C","C">>, <<"T","I","M","2">>, <<"T","I","M","3">>, <<"T","I","M","4">>,
      <<"I","2","C","1","_","E","V">>, <<"I","2","C","1","_","E","R">>, <<"I","2","C","2","_","E","V">>,
      <<"I","2","C","2","_","E","R">>, <<"S","P","I","1">>, <<"S","P","I","2">>, <<"U","S","A","R","T","1">>,
      <<"U","S","A","R","T","2">>, <<"U","S","A","R","T","3">>, <<"E","X","T","I","1","5","_","1","0">>,
      <<"R","T","C","_","A","L","A","R","M">>, <<"O","T","G","_","F","S","_","W","K","U","P">>,
      <<"T","I","M","1","2">>, <<"T","I","M","1","3">>, <<"T","I","M","1","4">>,
      <<"T","I","M","8","_","C","C">>, <<"D","M","A","1","_","S","T","R","E","A","M","7">>,
      <<"F","S","M","C">>, <<"S","D","I","O">>, <<"T","I","M","5">>, <<"S","P","I","3">>,
      <<"T","I","M","6","_","D","A","C","U","N","D","E","R">>, <<"T","I","M","7">>,
      <<"D","M","A","2","_","S","T","R","E","A","M","0">>, <<"D","M","A","2","_","S","T","R","E","A","M","1">>,
      <<"D","M","A","2","_","S","T","R","E","A","M","2">>, <<"D","M","A","2","_","S","T","R","E","A","M","3">>,
      <<"D","M","A","2","_","S","T","R","E","A","M","4">>, <<"D","F","S","D","M","1","_","F","L","T","0">>,
      <<"D","F","S","D","M","1","_","F","L","T","1">>, <<"C","A","N","2","_","T","X">>,
      <<"C","A","N","2","_","R","X","0">>, <<"C","A","N","2","_","R","X","1">>,
      <<"C","A","N","2","_","S","C","E">>, <<"O","T","G","_","F","S">>,
      <<"D","M","A","2","_","S","T","R","E","A","M","5">>, <<"D","M","A","2","_","S","T","R","E","A","M","6">>,
      <<"D","M","A","2","_","S","T","R","E","A","M","7">>, <<"U","S","A","R","T","6">>,
      <<"I","2","C","3","_","E","V">>, <<"I","2","C","3","_","E","R">>, <<"H","A","S","H","_","R","N","G">>,
      <<"F","P","U">>, <<"S","P","I","4">>, <<"S","P","I","5">>, <<"Q","U","A","D","_","S","P","I">>,
      <<"I","2","C","F","M","P","1","_","E","V","E","N","T">>,
      <<"I","2","C","F","M","P","1","_","E","R","R","O","R">>}

\* lib.rs 764-859: #[cfg(feature = "stm32f413")] const SUPPORTED_IRQS: [&str; 94]
SUPPORTED_IRQS_stm32f413 ==
    {<<"P","V","D">>, <<"T","A","M","P","_","S","T","A","M","P">>, <<"R","T","C","_","W","K","U","P">>,
      <<"F","L","A","S","H">>, <<"R","C","C">>, <<"E","X","T","I","0">>, <<"E","X","T","I","1">>,
      <<"E","X","T","I","2">>, <<"E","X","T","I","3">>, <<"E","X","T","I","4">>,
      <<"D","M","A","1","_","S","T","R","E","A","M","0">>, <<"D","M","A","1","_","S","T","R","E","A","M","1">>,
      <<"D","M","A","1","_","S","T","R","E","A","M","2">>, <<"D","M","A","1","_","S","T","R","E","A","M","3">>,
      <<"D","M","A","1","_","S","T","R","E","A","M","4">>, <<"D","M","A","1","_","S","T","R","E","A","M","5">>,
      <<"D","M","A","1","_","S","T","R","E","A","M","6">>, <<"A","D","C">>, <<"C","A","N","1","_","T","X">>,
      <<"C","A","N","1","_","R","X","0">>, <<"C","A","N","1","_","R","X","1">>,
      <<"C","A","N","1","_","S","C","E">>, <<"E","X","T","I","9","_","5">>,
      <<"T","I","M","1","_","B","R","K","_","T","I","M","9">>,
      <<"T","I","M","1","_","U","P","_","T","I","M","1","0">>,
      <<"T","I","M","1","_","T","R","G","_","C","O","M","_","T","I","M","1","1">>,
      <<"T","I","M","1","_","C","C">>, <<"T","I","M","2">>, <<"T","I","M","3">>, <<"T","I","M","4">>,
      <<"I","2","C","1","_","E","V","T">>, <<"I","2","C","1","_","E","R","R">>,
      <<"I","2","C","2","_","E","V","T">>, <<"I","2","C","2","_","E","R","R">>, <<"S","P","I","1">>,
      <<"S","P","I","2">>, <<"U","S","A","R","T","1">>, <<"U","S","A","R","T","2">>,
      <<"U","S","A","R","T","3">>, <<"E","X","T","I","1","5","_","1","0">>,
      <<"E","X","T","I","1","7","_","R","T","C","_","A","L","A","R","M">>,
      <<"T","I","M","8","_","B","R","K","_","T","I","M","1","2">>,
      <<"T","I","M","8","_","U","P","_","T","I","M","1","3">>,
      <<"T","I","M","8","_","T","R","G","_","C","O","M","_","T","I","M","1","4">>,
      <<"T","I","M","8","_","C","C">>, <<"D","M","A","1","_","S","T","R","E","A","M","7">>,
      <<"F","S","M","C">>, <<"S","D","I","O">>, <<"T","I","M","5">>, <<"S","P","I","3">>,
      <<"U","S","A","R","T","4">>, <<"U","A","R","T","5">>,
      <<"T","I","M","6","_","G","L","B","_","I","T","_","D","A","C","1","_","D","A","C","2">>,
      <<"T","I","M","7">>, <<"D","M","A","2","_","S","T","R","E","A","M","0">>,
      <<"D","M","A","2","_","S","T","R","E","A","M","1">>, <<"D","M","A","2","_","S","T","R","E","A","M","2">>,
      <<"D","M","A","2","_","S","T","R","E","A","M","3">>, <<"D","M","A","2","_","S","T","R","E","A","M","4">>,
      <<"D","F","S","D","M","1","_","F","L","T","0">>, <<"D","F","S","D","M","1","_","F","L","T","1">>,
      <<"C","A","N","2","_","T","X">>, <<"C","A","N","2","_","R","X","0">>,
      <<"C","A","N","2","_","R","X","1">>, <<"C","A","N","2","_","S","C","E">>, <<"O","T","G","_","F","S">>,
      <<"D","M","A","2","_","S","T","R","E","A","M","5">>, <<"D","M","A","2","_","S","T","R","E","A","M","6">>,
      <<"D","M","A","2","_","S","T","R","E","A","M","7">>, <<"U","S","A","R","T","6">>,
      <<"I","2","C","3","_","E","V">>, <<"I","2","C","3","_","E","R">>, <<"C","A","N","3","_","T","X">>,
      <<"C","A","N","3","_","R","X","0">>, <<"C","A","N","3","_","R","X","1">>,
      <<"C","A","N","3","_","S","C","E">>, <<"C","R","Y","P","T","O">>, <<"R","N","G">>, <<"F","P","U">>,
      <<"U","S","A","R","T","7">>, <<"U","S","A","R","T","8">>, <<"S","P","I","4">>, <<"S","P","I","5">>,
      <<"S","A","I","1">>, <<"U","A","R","T","9">>, <<"U","A","R","T","1","0">>,
      <<"Q","U","A","D","S","P","I">>, <<"I","2","C","F","M","P","1","E","V","E","N","T">>,
      <<"I","2","C","F","M","P","1","E","R","R","O","R">>,
      <<"L","P","T","I","M","1","_","O","R","_","I","T","_","E","I","T","_","2","3">>,
      <<"D","F","S","D","M","2","_","F","I","L","T","E","R","1">>,
      <<"D","F","S","D","M","2","_","F","I","L","T","E","R","2">>,
      <<"D","F","S","D","M","2","_","F","I","L","T","E","R","3">>,
      <<"D","F","S","D","M","2","_","F","I","L","T","E","R","4">>}

\* lib.rs 862-952: #[cfg(feature = "stm32f427")] const SUPPORTED_IRQS: [&str; 89]
SUPPORTED_IRQS_stm32f427 ==
    {<<"W","W","D","G">>, <<"P","V","D">>, <<"T","A","M","P","_","S","T","A","M","P">>,
      <<"R","T","C","_","W","K","U","P">>, <<"F","L","A","S","H">>, <<"R","C","C">>, <<"E","X","T","I","0">>,
      <<"E","X","T","I","1">>, <<"E","X","T","I","2">>, <<"E","X","T","I","3">>, <<"E","X","T","I","4">>,
      <<"D","M","A","1","_","S","T","R","E","A","M","0">>, <<"D","M","A","1","_","S","T","R","E","A","M","1">>,
      <<"D","M","A","1","_","S","T","R","E","A","M","2">>, <<"D","M","A","1","_","S","T","R","E","A","M","3">>,
      <<"D","M","A","1","_","S","T","R","E","A","M","4">>, <<"D","M","A","1","_","S","T","R","E","A","M","5">>,
      <<"D","M","A","1","_","S","T","R","E","A","M","6">>, <<"A","D","C">>, <<"C","A","N","1","_","T","X">>,
      <<"C","A","N","1","_","R","X","0">>, <<"C","A","N","1","_","R","X","1">>,
      <<"C","A","N","1","_","S","C","E">>, <<"E","X","T","I","9","_","5">>,
      <<"T","I","M","1","_","B","R","K","_","T","I","M","9">>,
      <<"T","I","M","1","_","U","P","_","T","I","M","1","0">>,
      <<"T","I","M","1","_","T","R","G","_","C","O","M","_","T","I","M","1","1">>,
      <<"T","I","M","1","_","C","C">>, <<"T","I","M","2">>, <<"T","I","M","3">>, <<"T","I","M","4">>,
      <<"I","2","C","1","_","E","V">>, <<"I","2","C","1","_","E","R">>, <<"I","2","C","2","_","E","V">>,
      <<"I","2","C","2","_","E","R">>, <<"S","P","I","1">>, <<"S","P","I","2">>, <<"U","S","A","R","T","1">>,
      <<"U","S","A","R","T","2">>, <<"U","S","A","R","T","3">>, <<"E","X","T","I","1","5","_","1","0">>,
      <<"R","T","C","_","A","L","A","R","M">>, <<"O","T","G","_","F","S","_","W","K","U","P">>,
      <<"T","I","M","8","_","B","R","K","_","T","I","M","1","2">>,
      <<"T","I","M","8","_","U","P","_","T","I","M","1","3">>,
      <<"T","I","M","8","_","T","R","G","_","C","O","M","_","T","I","M","1","4">>,
      <<"T","I","M","8","_","C","C">>, <<"D","M","A","1","_","S","T","R","E","A","M","7">>, <<"F","M","C">>,
      <<"S","D","I","O">>, <<"T","I","M","5">>, <<"S","P","I","3">>, <<"U","A","R","T","4">>,
      <<"U","A","R","T","5">>, <<"T","I","M","6","_","D","A","C">>, <<"T","I","M","7">>,
      <<"D","M","A","2","_","S","T","R","E","A","M","0">>, <<"D","M","A","2","_","S","T","R","E","A","M","1">>,
      <<"D","M","A","2","_","S","T","R","E","A","M","2">>, <<"D","M","A","2","_","S","T","R","E","A","M","3">>,
      <<"D","M","A","2","_","S","T","R","E","A","M","4">>, <<"E","T","H">>,
      <<"E","T","H","_","W","K","U","P">>, <<"C","A","N","2","_","T","X">>,
      <<"C","A","N","2","_","R","X","0">>, <<"C","A","N","2","_","R","X","1">>,
      <<"C","A","N","2","_","S","C","E">>, <<"O","T","G","_","F","S">>,
      <<"D","M","A","2","_","S","T","R","E","A","M","5">>, <<"D","M","A","2","_","S","T","R","E","A","M","6">>,
      <<"D","M","A","2","_","S","T","R","E","A","M","7">>, <<"U","S","A","R","T","6">>,
      <<"I","2","C","3","_","E","V">>, <<"I","2","C","3","_","E","R">>,
      <<"O","T","G","_","H","S","_","E","P","1","_","O","U","T">>,
      <<"O","T","G","_","H","S","_","E","P","1","_","I","N">>, <<"O","T","G","_","H","S","_","W","K","U","P">>,
      <<"O","T","G","_","H","S">>, <<"D","C","M","I">>, <<"C","R","Y","P">>,
      <<"H","A","S","H","_","R","N","G">>, <<"F","P","U">>, <<"U","A","R","T","7">>, <<"U","A","R","T","8">>,
      <<"S","P","I","4">>, <<"S","P","I","5">>, <<"S","P","I","6">>, <<"L","C","D","_","T","F","T">>,
      <<"L","C","D","_","T","F","T","_","1">>}

\* lib.rs 955-1047: #[cfg(feature = "stm32f429")] const SUPPORTED_IRQS: [&str; 91]
SUPPORTED_IRQS_stm32f429 ==
    {<<"W","W","D","G">>, <<"P","V","D">>, <<"T","A","M","P","_","S","T","A","M","P">>,
      <<"R","T","C","_","W","K","U","P">>, <<"F","L","A","S","H">>, <<"R","C","C">>, <<"E","X","T","I","0">>,
      <<"E","X","T","I","1">>, <<"E","X","T","I","2">>, <<"E","X","T","I","3">>, <<"E","X","T","I","4">>,
      <<"D","M","A","1","_","S","T","R","E","A","M","0">>, <<"D","M","A","1","_","S","T","R","E","A","M","1">>,
      <<"D","M","A","1","_","S","T","R","E","A","M","2">>, <<"D","M","A","1","_","S","T","R","E","A","M","3">>,
      <<"D","M","A","1","_","S","T","R","E","A","M","4">>, <<"D","M","A","1","_","S","T","R","E","A","M","5">>,
      <<"D","M","A","1","_","S","T","R","E","A","M","6">>, <<"A","D","C">>, <<"C","A","N","1","_","T","X">>,
      <<"C","A","N","1","_","R","X","0">>, <<"C","A","N","1","_","R","X","1">>,
      <<"C","A","N","1","_","S","C","E">>, <<"E","X","T","I","9","_","5">>,
      <<"T","I","M","1","_","B","R","K","_","T","I","M","9">>,
      <<"T","I","M","1","_","U","P","_","T","I","M","1","0">>,
      <<"T","I","M","1","_","T","R","G","_","C","O","M","_","T","I","M","1","1">>,
      <<"T","I","M","1","_","C","C">>, <<"T","I","M","2">>, <<"T","I","M","3">>, <<"T","I","M","4">>,
      <<"I","2","C","1","_","E","V">>, <<"I","2","C","1","_","E","R">>, <<"I","2","C","2","_","E","V">>,
      <<"I","2","C","2","_","E","R">>, <<"S","P","I","1">>, <<"S","P","I","2">>, <<"U","S","A","R","T","1">>,
      <<"U","S","A","R","T","2">>, <<"U","S","A","R","T","3">>, <<"E","X","T","I","1","5","_","1","0">>,
      <<"R","T","C","_","A","L","A","R","M">>, <<"O","T","G","_","F","S","_","W","K","U","P">>,
      <<"T","I","M","8","_","B","R","K","_","T","I","M","1","2">>,
      <<"T","I","M","8","_","U","P","_","T","I","M","1","3">>,
      <<"T","I","M","8","_","T","R","G","_","C","O","M","_","T","I","M","1","4">>,
      <<"T","I","M","8","_","C","C">>, <<"D","M","A","1","_","S","T","R","E","A","M","7">>, <<"F","M","C">>,
      <<"S","D","I","O">>, <<"T","I","M","5">>, <<"S","P","I","3">>, <<"U","A","R","T","4">>,
      <<"U","A","R","T","5">>, <<"T","I","M","6","_","D","A","C">>, <<"T","I","M","7">>,
      <<"D","M","A","2","_","S","T","R","E","A","M","0">>, <<"D","M","A","2","_","S","T","R","E","A","M","1">>,
      <<"D","M","A","2","_","S","T","R","E","A","M","2">>, <<"D","M","A","2","_","S","T","R","E","A","M","3">>,
      <<"D","M","A","2","_","S","T","R","E","A","M","4">>, <<"E","T","H">>,
      <<"E","T","H","_","W","K","U","P">>, <<"C","A","N","2","_","T","X">>,
      <<"C","A","N","2","_","R","X","0">>, <<"C","A","N","2","_","R","X","1">>,
      <<"C","A","N","2","_","S","C","E">>, <<"O","T","G","_","F","S">>,
      <<"D","M","A","2","_","S","T","R","E","A","M","5">>, <<"D","M","A","2","_","S","T","R","E","A","M","6">>,
      <<"D","M","A","2","_","S","T","R","E","A","M","7">>, <<"U","S","A","R","T","6">>,
      <<"I","2","C","3","_","E","V">>, <<"I","2","C","3","_","E","R">>,
      <<"O","T","G","_","H","S","_","E","P","1","_","O","U","T">>,
      <<"O","T","G","_","H","S","_","E","P","1","_","I","N">>, <<"O","T","G","_","H","S","_","W","K","U","P">>,
      <<"O","T","G","_","H","S">>, <<"D","C","M","I">>, <<"C","R","Y","P">>,
      <<"H","A","S","H","_","R","N","G">>, <<"F","P","U">>, <<"U","A","R","T","7">>, <<"U","A","R","T","8">>,
      <<"S","P","I","4">>, <<"S","P","I","5">>, <<"S","P","I","6">>, <<"S","A","I","1">>,
      <<"L","C","D","_","T","F","T">>, <<"L","C","D","_","T","F","T","_","1">>, <<"D","M","A","2","D">>}

\* lib.rs 1050-1131: #[cfg(feature = "stm32f446")] const SUPPORTED_IRQS: [&str; 80]
SUPPORTED_IRQS_stm32f446 ==
    {<<"W","W","D","G">>, <<"T","A","M","P","_","S","T","A","M","P">>, <<"R","T","C","_","W","K","U","P">>,
      <<"F","L","A","S","H">>, <<"R","C","C">>, <<"E","X","T","I","0">>, <<"E","X","T","I","1">>,
      <<"E","X","T","I","2">>, <<"E","X","T","I","3">>, <<"E","X","T","I","4">>,
      <<"D","M","A","1","_","S","T","R","E","A","M","0">>, <<"D","M","A","1","_","S","T","R","E","A","M","1">>,
      <<"D","M","A","1","_","S","T","R","E","A","M","2">>, <<"D","M","A","1","_","S","T","R","E","A","M","3">>,
      <<"D","M","A","1","_","S","T","R","E","A","M","4">>, <<"D","M","A","1","_","S","T","R","E","A","M","5">>,
      <<"D","M","A","1","_","S","T","R","E","A","M","6">>, <<"A","D","C">>, <<"C","A","N","1","_","T","X">>,
      <<"C","A","N","1","_","R","X","0">>, <<"C","A","N","1","_","R","X","1">>,
      <<"C","A","N","1","_","S","C","E">>, <<"E","X","T","I","9","_","5">>,
      <<"T","I","M","1","_","B","R","K","_","T","I","M","9">>,
      <<"T","I","M","1","_","U","P","_","T","I","M","1","0">>,
      <<"T","I","M","1","_","T","R","G","_","C","O","M","_","T","I","M","1","1">>,
      <<"T","I","M","1","_","C","C">>, <<"T","I","M","2">>, <<"T","I","M","3">>, <<"T","I","M","4">>,
      <<"I","2","C","1","_","E","V">>, <<"I","2","C","1","_","E","R">>, <<"I","2","C","2","_","E","V">>,
      <<"I","2","C","2","_","E","R">>, <<"S","P","I","1">>, <<"S","P","I","2">>, <<"U","S","A","R","T","1">>,
      <<"U","S","A","R","T","2">>, <<"U","S","A","R","T","3">>, <<"E","X","T","I","1","5","_","1","0">>,
      <<"R","T","C","_","A","L","A","R","M">>, <<"O","T","G","_","F","S","_","W","K","U","P">>,
      <<"T","I","M","8","_","B","R","K","_","T","I","M","1","2">>,
      <<"T","I","M","8","_","U","P","_","T","I","M","1","3">>,
      <<"T","I","M","8","_","T","R","G","_","C","O","M","_","T","I","M","1","4">>,
      <<"T","I","M","8","_","C","C">>, <<"D","M","A","1","_","S","T","R","E","A","M","7">>, <<"F","M","C">>,
      <<"S","D","I","O">>, <<"T","I","M","5">>, <<"S","P","I","3">>, <<"U","A","R","T","4">>,
      <<"U","A","R","T","5">>, <<"T","I","M","6","_","D","A","C">>, <<"T","I","M","7">>,
      <<"D","M","A","2","_","S","T","R","E","A","M","0">>, <<"D","M","A","2","_","S","T","R","E","A","M","1">>,
      <<"D","M","A","2","_","S","T","R","E","A","M","2">>, <<"D","M","A","2","_","S","T","R","E","A","M","3">>,
      <<"D","M","A","2","_","S","T","R","E","A","M","4">>, <<"E","T","H">>,
      <<"E","T","H","_","W","K","U","P">>, <<"C","A","N","2","_","T","X">>,
      <<"C","A","N","2","_","R","X","0">>, <<"C","A","N","2","_","R","X","1">>,
      <<"C","A","N","2","_","S","C","E">>, <<"O","T","G","_","F","S">>,
      <<"D","M","A","2","_","S","T","R","E","A","M","5">>, <<"D","M","A","2","_","S","T","R","E","A","M","6">>,
      <<"D","M","A","2","_","S","T","R","E","A","M","7">>, <<"U","S","A","R","T","6">>,
      <<"I","2","C","3","_","E","V">>, <<"I","2","C","3","_","E","R">>, <<"D","C","M","I">>, <<"F","P","U">>,
      <<"U","A","R","T","7">>, <<"U","A","R","T","8">>, <<"S","P","I","4">>, <<"L","C","D","_","T","F","T">>,
      <<"L","C","D","_","T","F","T","_","1">>}

\* lib.rs 1134-1228: #[cfg(feature = "stm32f469")] const SUPPORTED_IRQS: [&str; 93]
SUPPORTED_IRQS_stm32f469 ==
    {<<"W","W","D","G">>, <<"P","V","D">>, <<"T","A","M","P","_","S","T","A","M","P">>,
      <<"R","T","C","_","W","K","U","P">>, <<"F","L","A","S","H">>, <<"R","C","C">>, <<"E","X","T","I","0">>,
      <<"E","X","T","I","1">>, <<"E","X","T","I","2">>, <<"E","X","T","I","3">>, <<"E","X","T","I","4">>,
      <<"D","M","A","1","_","S","T","R","E","A","M","0">>, <<"D","M","A","1","_","S","T","R","E","A","M","1">>,
      <<"D","M","A","1","_","S","T","R","E","A","M","2">>, <<"D","M","A","1","_","S","T","R","E","A","M","3">>,
      <<"D","M","A","1","_","S","T","R","E","A","M","4">>, <<"D","M","A","1","_","S","T","R","E","A","M","5">>,
      <<"D","M","A","1","_","S","T","R","E","A","M","6">>, <<"A","D","C">>, <<"C","A","N","1","_","T","X">>,
      <<"C","A","N","1","_","R","X","0">>, <<"C","A","N","1","_","R","X","1">>,
      <<"C","A","N","1","_","S","C","E">>, <<"E","X","T","I","9","_","5">>,
      <<"T","I","M","1","_","B","R","K","_","T","I","M","9">>,
      <<"T","I","M","1","_","U","P","_","T","I","M","1","0">>,
      <<"T","I","M","1","_","T","R","G","_","C","O","M","_","T","I","M","1","1">>,
      <<"T","I","M","1","_","C","C">>, <<"T","I","M","2">>, <<"T","I","M","3">>, <<"T","I","M","4">>,
      <<"I","2","C","1","_","E","V">>, <<"I","2","C","1","_","E","R">>, <<"I","2","C","2","_","E","V">>,
      <<"I","2","C","2","_","E","R">>, <<"S","P","I","1">>, <<"S","P","I","2">>, <<"U","S","A","R","T","1">>,
      <<"U","S","A","R","T","2">>, <<"U","S","A","R","T","3">>, <<"E","X","T","I","1","5","_","1","0">>,
      <<"R","T","C","_","A","L","A","R","M">>, <<"O","T","G","_","F","S","_","W","K","U","P">>,
      <<"T","I","M","8","_","B","R","K","_","T","I","M","1","2">>,
      <<"T","I","M","8","_","U","P","_","T","I","M","1","3">>,
      <<"T","I","M","8","_","T","R","G","_","C","O","M","_","T","I","M","1","4">>,
      <<"T","I","M","8","_","C","C">>, <<"D","M","A","1","_","S","T","R","E","A","M","7">>, <<"F","M","C">>,
      <<"S","D","I","O">>, <<"T","I","M","5">>, <<"S","P","I","3">>, <<"U","A","R","T","4">>,
      <<"U","A","R","T","5">>, <<"T","I","M","6","_","D","A","C">>, <<"T","I","M","7">>,
      <<"D","M","A","2","_","S","T","R","E","A","M","0">>, <<"D","M","A","2","_","S","T","R","E","A","M","1">>,
      <<"D","M","A","2","_","S","T","R","E","A","M","2">>, <<"D","M","A","2","_","S","T","R","E","A","M","3">>,
      <<"D","M","A","2","_","S","T","R","E","A","M","4">>, <<"E","T","H">>,
      <<"E","T","H","_","W","K","U","P">>, <<"C","A","N","2","_","T","X">>,
      <<"C","A","N","2","_","R","X","0">>, <<"C","A","N","2","_","R","X","1">>,
      <<"C","A","N","2","_","S","C","E">>, <<"O","T","G","_","F","S">>,
      <<"D","M","A","2","_","S","T","R","E","A","M","5">>, <<"D","M","A","2","_","S","T","R","E","A","M","6">>,
      <<"D","M","A","2","_","S","T","R","E","A","M","7">>, <<"U","S","A","R","T","6">>,
      <<"I","2","C","3","_","E","V">>, <<"I","2","C","3","_","E","R">>,
      <<"O","T","G","_","H","S","_","E","P","1","_","O","U","T">>,
      <<"O","T","G","_","H","S","_","E","P","1","_","I","N">>, <<"O","T","G","_","H","S","_","W","K","U","P">>,
      <<"O","T","G","_","H","S">>, <<"D","C","M","I">>, <<"C","R","Y","P">>,
      <<"H","A","S","H","_","R","N","G">>, <<"F","P","U">>, <<"U","A","R","T","7">>, <<"U","A","R","T","8">>,
      <<"S","P","I","4">>, <<"S","P","I","5">>, <<"S","P","I","6">>, <<"S","A","I","1">>,
      <<"L","C","D","_","T","F","T">>, <<"L","C","D","_","T","F","T","_","1">>, <<"D","M","A","2","D">>,
      <<"Q","U","A","D","S","P","I">>, <<"D","S","I","H","O","S","T">>}

\* The MCU model features of the crate (lib.rs 313-325).
Features ==
    {"stm32f401", "stm32f405", "stm32f407", "stm32f410", "stm32f411", "stm32f412",
     "stm32f413", "stm32f427", "stm32f429", "stm32f446", "stm32f469"}

\* The SUPPORTED_IRQS constant the build selects (lib.rs 313-1228): the table
\* of the enabled feature, the empty array when no feature is enabled.
SUPPORTED_IRQS(f) ==
    CASE f = "stm32f401" -> SUPPORTED_IRQS_stm32f401
      [] f = "stm32f405" -> SUPPORTED_IRQS_stm32f405
      [] f = "stm32f407" -> SUPPORTED_IRQS_stm32f407
      [] f = "stm32f410" -> SUPPORTED_IRQS_stm32f410
      [] f = "stm32f411" -> SUPPORTED_IRQS_stm32f411
      [] f = "stm32f412" -> SUPPORTED_IRQS_stm32f412
      [] f = "stm32f413" -> SUPPORTED_IRQS_stm32f413
      [] f = "stm32f427" -> SUPPORTED_IRQS_stm32f427
      [] f = "stm32f429" -> SUPPORTED_IRQS_stm32f429
      [] f = "stm32f446" -> SUPPORTED_IRQS_stm32f446
      [] f = "stm32f469" -> SUPPORTED_IRQS_stm32f469
      [] OTHER -> {}

-----------------------------------------------------------------------------
(* What syn hands to the macros.                                           *)

\* Option<Abi> of a signature: no `extern` at all, or a declared `extern`
\* with its name (the empty name for a bare `extern`).
NoAbi == [some |-> FALSE, name |-> ""]
SomeAbi(n) == [some |-> TRUE, name |-> n]
Abis == {NoAbi, SomeAbi("Rust"), SomeAbi("C"), SomeAbi("")}

\* syn::ReturnType: Default, or Type(ty) with ty a tuple of `elems` elements
\* (`()` has none), the never type `!`, or any other type.
RetDefault == [kind |-> "Default", ty |-> "", elems |-> 0]
RetTuple(n) == [kind |-> "Type", ty |-> "Tuple", elems |-> n]
RetNever == [kind |-> "Type", ty |-> "Never", elems |-> 0]
RetOther == [kind |-> "Type", ty |-> "Path", elems |-> 0]
ReturnTypes == {RetDefault, RetNever, RetOther} \cup {RetTuple(n) : n \in 0..MaxTupleElems}

\* Types a parameter of a declaration under test is declared with.
PERIPHERALS == "cortex_m::Peripherals"
ParamTypes == {PERIPHERALS, "u32"}

\* Identifiers of the declarations under test.
Idents == {<<"b","o","o","t">>, <<"t","i","c","k","_","h","a","n","d","l","e","r">>}

\* Parameter lists of the declarations under test: the type of the first
\* parameter varies, the parameters after it are integers.
ParamLists ==
    {<<>>} \cup {<<t>> \o [i \in 1..k |-> "u32"] : t \in ParamTypes, k \in 0..(MaxParams - 1)}

\* Sequences over S of length at most n.
SeqUpTo(S, n) == UNION {[1..k -> S] : k \in 0..n}

\* syn::Signature, as far as the macros read it.
Signatures ==
    [ident : Idents, inputs : ParamLists, output : ReturnTypes,
     abi : Abis, asyncness : BOOLEAN, unsafety : BOOLEAN, variadic : BOOLEAN]

\* The `item` token stream: an ItemFn, or tokens that are no function.
NoItemFn == [parses |-> FALSE]
ItemFn(sig) == [parses |-> TRUE, sig |-> sig]

\* Names written as the attribute argument.
TIM2 == <<"T","I","M","2">>
DSIHOST == <<"D","S","I","H","O","S","T">>
tim2 == <<"t","i","m","2">>
NOT_A_REAL_IRQ == <<"N","O","T","_","A","_","R","E","A","L","_","I","R","Q">>

\* syn::NestedMeta: Meta(Path), Meta(List), Meta(NameValue) or Lit.  `path`
\* is the path of the meta item (its segments, and whether it starts with
\* `::`); for a literal it holds the literal's text.
MetaPath(lead, segs) == [kind |-> "Meta::Path", leading_colon |-> lead, segments |-> segs]
MetaList(segs) == [kind |-> "Meta::List", leading_colon |-> FALSE, segments |-> segs]
MetaNameValue(segs) == [kind |-> "Meta::NameValue", leading_colon |-> FALSE, segments |-> segs]
Lit(text) == [kind |-> "Lit", leading_colon |-> FALSE, segments |-> <<text>>]

\* Attribute arguments under test: bare identifiers (registered for every MCU
\* that has the timer, for one MCU only, in the wrong case, for none), longer
\* paths, and the forms that are no path.
BareIdents == {MetaPath(FALSE, <<n>>) : n \in {TIM2, DSIHOST, tim2, NOT_A_REAL_IRQ}}
NestedMetas ==
    BareIdents \cup
    {MetaPath(FALSE, <<TIM2, TIM2>>), MetaPath(TRUE, <<TIM2>>),
     Lit(TIM2), MetaList(<<TIM2>>), MetaNameValue(<<TIM2>>)}
\* Elements of the argument lists longer than one element.
ManyPool == {MetaPath(FALSE, <<TIM2>>), Lit(TIM2)}
AttributeArgs ==
    {<<>>} \cup {<<m>> : m \in NestedMetas}
           \cup {a \in SeqUpTo(ManyPool, MaxArgs) : Len(a) >= 2}

\* The `attr` token stream: an argument list, or tokens that are none.
NoAttributeArgs == [parses |-> FALSE]
AttrArgs(args) == [parses |-> TRUE, args |-> args]

-----------------------------------------------------------------------------
(* Signature validation (lib.rs 201-287).  A TLA+ string cannot hold a     *)
(* backquote: the backquotes of the messages are written ' here.           *)

\* A check that passed.
Ok == "ok"
\* No panic has happened.
NoPanic == "no panic"

\* macro_rules! hander_macro_arg_error
hander_macro_arg_error ==
    "Handler's argument must be one of the supported IRQs. Forgot to set the MCU model feature?"

\* macro_rules! hander_macro_retval_error
hander_macro_retval_error == "Handler's return type must be ()."

\* The match on sig.output of check_main_function_signature: no return type,
\* the empty tuple and `!` pass.
main_output_ok(out) ==
    \/ out.kind = "Default"
    \/ out.kind = "Type" /\ out.ty = "Tuple" /\ out.elems = 0
    \/ out.kind = "Type" /\ out.ty = "Never"

\* The match on sig.output of check_handler_function_signature: no return
\* type and the empty tuple pass.
handler_output_ok(out) ==
    \/ out.kind = "Default"
    \/ out.kind = "Type" /\ out.ty = "Tuple" /\ out.elems = 0

\* A main check that lets any number of parameters but none through.
check_main_function_signature_some_param(sig) ==
    IF Len(sig.inputs) = 0
    THEN "Main function must receive one argument of type 'cortex_m::Peripherals'."
    ELSE IF ~main_output_ok(sig.output) THEN hander_macro_retval_error
    ELSE IF sig.asyncness THEN "Main function cannot be 'async'."
    ELSE IF sig.unsafety THEN "Main function must be safe."
    ELSE IF sig.variadic THEN "Handler function cannot be variadic."
    ELSE Ok

\* check_main_function_signature: the message of the panic, or Ok.
check_main_function_signature(sig) ==
    IF Len(sig.inputs) # 1
    THEN "Main function must receive one argument of type 'cortex_m::Peripherals'."
    ELSE IF ~main_output_ok(sig.output) THEN hander_macro_retval_error
    ELSE IF sig.asyncness THEN "Main function cannot be 'async'."
    ELSE IF sig.unsafety THEN "Main function must be safe."
    ELSE IF sig.variadic THEN "Handler function cannot be variadic."
    ELSE Ok

\* A handler check with the return type rule of the main function.
check_handler_function_signature_never_ok(sig) ==
    IF Len(sig.inputs) # 0 THEN "Handler function should not have any parameter."
    ELSE IF ~main_output_ok(sig.output) THEN hander_macro_retval_error
    ELSE IF sig.abi.some THEN "Handler function must have Rust ABI."
    ELSE IF sig.asyncness THEN "Handler function cannot be 'async'."
    ELSE IF sig.variadic THEN "Handler function cannot be variadic."
    ELSE Ok

\* A handler check that looks at the async qualifier before anything else.
check_handler_function_signature_async_first(sig) ==
    IF sig.asyncness THEN "Handler function cannot be 'async'."
    ELSE IF Len(sig.inputs) # 0 THEN "Handler function should not have any parameter."
    ELSE IF ~handler_output_ok(sig.output) THEN hander_macro_retval_error
    ELSE IF sig.abi.some THEN "Handler function must have Rust ABI."
    ELSE IF sig.variadic THEN "Handler function cannot be variadic."
    ELSE Ok

\* check_handler_function_signature: the message of the panic, or Ok.
check_handler_function_signature(sig) ==
    IF Len(sig.inputs) # 0 THEN "Handler function should not have any parameter."
    ELSE IF ~handler_output_ok(sig.output) THEN hander_macro_retval_error
    ELSE IF sig.abi.some THEN "Handler function must have Rust ABI."
    ELSE IF sig.asyncness THEN "Handler function cannot be 'async'."
    ELSE IF sig.variadic THEN "Handler function cannot be variadic."
    ELSE Ok

-----------------------------------------------------------------------------
(* IRQ name resolution (lib.rs 289-309).                                   *)

RECURSIVE JoinSegments(_)
\* The segments of a path as quote! prints them: separated by " :: ".
JoinSegments(segs) ==
    IF Len(segs) = 0 THEN <<>>
    ELSE IF Len(segs) = 1 THEN segs[1]
    ELSE segs[1] \o <<" ", ":", ":", " ">> \o JoinSegments(Tail(segs))

\* quote! { #ss }.to_string() of a path (lib.rs 299).
PathToString(p) ==
    (IF p.leading_colon THEN <<":", ":", " ">> ELSE <<>>) \o JoinSegments(p.segments)

\* Result of parse_attribute_arg_to_irq: the name, or the panic message.
IrqOk(name) == [ok |-> TRUE, irq |-> name, msg |-> NoPanic]
IrqPanic(m) == [ok |-> FALSE, irq |-> <<>>, msg |-> m]

\* A resolution that compares names without regard to case.
parse_attribute_arg_to_irq_ignore_case(attr_args, f) ==
    IF Len(attr_args) # 1 THEN IrqPanic(hander_macro_arg_error)
    ELSE IF attr_args[1].kind # "Meta::Path" THEN IrqPanic(hander_macro_arg_error)
    ELSE LET arg == PathToString(attr_args[1]) IN
         IF ~(\E irq \in SUPPORTED_IRQS(f) : to_lowercase(irq) = to_lowercase(arg))
         THEN IrqPanic(hander_macro_arg_error)
         ELSE IrqOk(arg)

\* parse_attribute_arg_to_irq under the feature f.
parse_attribute_arg_to_irq(attr_args, f) ==
    IF Len(attr_args) # 1 THEN IrqPanic(hander_macro_arg_error)
    ELSE IF attr_args[1].kind # "Meta::Path" THEN IrqPanic(hander_macro_arg_error)
    ELSE LET arg == PathToString(attr_args[1]) IN
         IF ~(\E irq \in SUPPORTED_IRQS(f) : irq = arg)
         THEN IrqPanic(hander_macro_arg_error)
         ELSE IrqOk(arg)

-----------------------------------------------------------------------------
(* Synthesis of the generated code (lib.rs 49-64, 141-190).  A fragment is *)
(* the parsed form of the text a format! template produces.                *)

\* The fixed pieces of the generated symbols.
HOPTER_PREFIX == <<"_","_","h","o","p","t","e","r","_">>
ENTRY_SUFFIX == <<"_","e","n","t","r","y">>
TRAMPOLINE_SUFFIX == <<"_","t","r","a","m","p","o","l","i","n","e">>
MAIN_TRAMPOLINE == <<"_","_","m","a","i","n","_","t","r","a","m","p","o","l","i","n","e">>

\* One instruction of the entry sequence: mnemonic, register list, base
\* register, immediate, and the name of the asm! operand it refers to.
Ins(op, regs, rn, imm, ref) == [op |-> op, regs |-> regs, rn |-> rn, imm |-> imm, ref |-> ref]

\* An entry sequence that trusts r0 to survive the call of the trampoline.
entry_instructions_no_reload ==
    << Ins("ldr=",  <<"r0">>, "", 0, "tls_mem_addr"),
       Ins("ldmia", <<"r1", "r2", "r3">>, "r0", 0, ""),
       Ins("push",  <<"r1", "r2", "r3", "lr">>, "sp", 0, ""),
       Ins("ldr=",  <<"r1">>, "", 0, "cont_stk_boundary"),
       Ins("mov",   <<"r2">>, "", 0, ""),
       Ins("strd",  <<"r1", "r2">>, "r0", 0, ""),
       Ins("str",   <<"r2">>, "r0", 8, ""),
       Ins("bl",    <<>>, "", 0, "handler_trampoline"),
       Ins("pop",   <<"r1", "r2", "r3">>, "sp", 0, ""),
       Ins("stmia", <<"r1", "r2", "r3">>, "r0", 0, ""),
       Ins("pop",   <<"pc">>, "sp", 0, "") >>

\* An entry sequence that sets the TLS fields for the handler before it
\* saves them.
entry_instructions_set_before_save ==
    << Ins("ldr=",  <<"r0">>, "", 0, "tls_mem_addr"),
       Ins("ldr=",  <<"r1">>, "", 0, "cont_stk_boundary"),
       Ins("mov",   <<"r2">>, "", 0, ""),
       Ins("strd",  <<"r1", "r2">>, "r0", 0, ""),
       Ins("str",   <<"r2">>, "r0", 8, ""),
       Ins("ldmia", <<"r1", "r2", "r3">>, "r0", 0, ""),
       Ins("push",  <<"r1", "r2", "r3", "lr">>, "sp", 0, ""),
       Ins("bl",    <<>>, "", 0, "handler_trampoline"),
       Ins("pop",   <<"r1", "r2", "r3">>, "sp", 0, ""),
       Ins("ldr=",  <<"r0">>, "", 0, "tls_mem_addr"),
       Ins("stmia", <<"r1", "r2", "r3">>, "r0", 0, ""),
       Ins("pop",   <<"pc">>, "sp", 0, "") >>

\* The instructions of the asm! block of the entry sequence (lib.rs 152-165).
entry_instructions ==
    << Ins("ldr=",  <<"r0">>, "", 0, "tls_mem_addr"),
       Ins("ldmia", <<"r1", "r2", "r3">>, "r0", 0, ""),
       Ins("push",  <<"r1", "r2", "r3", "lr">>, "sp", 0, ""),
       Ins("ldr=",  <<"r1">>, "", 0, "cont_stk_boundary"),
       Ins("mov",   <<"r2">>, "", 0, ""),
       Ins("strd",  <<"r1", "r2">>, "r0", 0, ""),
       Ins("str",   <<"r2">>, "r0", 8, ""),
       Ins("bl",    <<>>, "", 0, "handler_trampoline"),
       Ins("pop",   <<"r1", "r2", "r3">>, "sp", 0, ""),
       Ins("ldr=",  <<"r0">>, "", 0, "tls_mem_addr"),
       Ins("stmia", <<"r1", "r2", "r3">>, "r0", 0, ""),
       Ins("pop",   <<"pc">>, "sp", 0, "") >>

\* An entry sequence exported under the lowercased name.
format_entry_asm_export_lower(irq, lower_caes_irq) ==
    [kind |-> "entry", naked |-> TRUE, export_name |-> lower_caes_irq,
     name |-> Concat(<<HOPTER_PREFIX, lower_caes_irq, ENTRY_SUFFIX>>),
     asm |-> entry_instructions,
     tls_mem_addr |-> "hopter::config::__TLS_MEM_ADDR",
     cont_stk_boundary |-> "hopter::config::__CONTIGUOUS_STACK_BOUNDARY",
     handler_trampoline |-> Concat(<<HOPTER_PREFIX, lower_caes_irq, TRAMPOLINE_SUFFIX>>),
     noreturn |-> TRUE]

\* The entry sequence: format! of the template with irq, lower_caes_irq and
\* lower_caes_irq in its three places, parsed (lib.rs 146-176).
format_entry_asm(irq, lower_caes_irq) ==
    [kind |-> "entry", naked |-> TRUE, export_name |-> irq,
     name |-> Concat(<<HOPTER_PREFIX, lower_caes_irq, ENTRY_SUFFIX>>),
     asm |-> entry_instructions,
     tls_mem_addr |-> "hopter::config::__TLS_MEM_ADDR",
     cont_stk_boundary |-> "hopter::config::__CONTIGUOUS_STACK_BOUNDARY",
     handler_trampoline |-> Concat(<<HOPTER_PREFIX, lower_caes_irq, TRAMPOLINE_SUFFIX>>),
     noreturn |-> TRUE]

\* One statement of a generated function body: the function it calls, what
\* it is called with and the variable the result is bound to ("_" discards
\* it, "" is a statement without binding).
Stmt(bind, call, arg) == [bind |-> bind, call |-> call, arg |-> arg]

PREV == <<"p","r","e","v","_","i","s","_","h","a","n","d","l","e","r","_",
          "u","n","w","i","n","d","i","n","g">>

\* A dispatch trampoline that leaves the flag cleared when it returns.
format_trampoline_no_restore(lower_caes_irq, func_name) ==
    [kind |-> "fn", name |-> Concat(<<HOPTER_PREFIX, lower_caes_irq, TRAMPOLINE_SUFFIX>>),
     body |-> << Stmt(PREV, "hopter::unwind::unwind::save_and_clear_isr_unwinding", <<>>),
                 Stmt(<<"_">>, "hopter::unwind::unw_catch::catch_unwind", func_name) >>]

\* The dispatch trampoline: format! of the template with lower_caes_irq and
\* func_name in its two places, parsed (lib.rs 178-190).
format_trampoline(lower_caes_irq, func_name) ==
    [kind |-> "fn", name |-> Concat(<<HOPTER_PREFIX, lower_caes_irq, TRAMPOLINE_SUFFIX>>),
     body |-> << Stmt(PREV, "hopter::unwind::unwind::save_and_clear_isr_unwinding", <<>>),
                 Stmt(<<"_">>, "hopter::unwind::unw_catch::catch_unwind", func_name),
                 Stmt(<<>>, "hopter::unwind::unwind::set_isr_unwinding", PREV) >>]

\* One statement of the main trampoline: the operation, the memory ordering
\* of a load, the type a pointer is cast to, the function called.
MainStmt(op, ordering, cast, callee) ==
    [op |-> op, ordering |-> ordering, cast |-> cast, callee |-> callee]

\* A main trampoline that casts the pointer to the type of the parameter of
\* the main function.
format_main_trampoline_param_type(func_name, sig) ==
    [kind |-> "fn", no_mangle |-> TRUE, abi |-> "Rust", name |-> MAIN_TRAMPOLINE,
     param |-> "core::sync::atomic::AtomicPtr<u8>",
     body |-> << MainStmt("arg.load", "core::sync::atomic::Ordering::SeqCst",
                          sig.inputs[1], <<>>),
                 MainStmt("alloc::boxed::Box::from_raw", "", "", <<>>),
                 MainStmt("call(*arg)", "", "", func_name) >>]

\* The main trampoline: format! of the template with func_name in its place,
\* parsed (lib.rs 52-64).  The signature of the main function is not read.
format_main_trampoline(func_name, sig) ==
    [kind |-> "fn", no_mangle |-> TRUE, abi |-> "Rust", name |-> MAIN_TRAMPOLINE,
     param |-> "core::sync::atomic::AtomicPtr<u8>",
     body |-> << MainStmt("arg.load", "core::sync::atomic::Ordering::SeqCst",
                          PERIPHERALS, <<>>),
                 MainStmt("alloc::boxed::Box::from_raw", "", "", <<>>),
                 MainStmt("call(*arg)", "", "", func_name) >>]

\* The function the macro was applied to, put back into the output as parsed.
Original(it) == [kind |-> "item", item |-> it]

\* What parse_macro_input! returns from the macro when the tokens do not parse.
CompileError == <<[kind |-> "compile_error"]>>

-----------------------------------------------------------------------------
(* The expansion of the two attribute macros, statement by statement.      *)

NoFragment == [kind |-> "none"]

\* The local bindings of `handler` (irq, lower_caes_irq, func_name,
\* entry_asm, trampoline) and of `main` (func_name, trampoline), unset.
NoLocals ==
    [irq |-> <<>>, lower_caes_irq |-> <<>>, func_name |-> <<>>,
     entry_asm |-> NoFragment, trampoline |-> NoFragment]

\* The core is not running generated code while a macro expands.
IdleCpu == [r0 |-> 0, r1 |-> 0, r2 |-> 0, r3 |-> 0, lr |-> 0, sp |-> 0, pc |-> 0]
IdleRun == [at |-> "idle", ip |-> 0, code |-> <<>>]
IdleGhost == [none |-> TRUE]

\* A panic unwinds out of the macro: nothing is returned.
Panic(m) ==
    /\ pc' = "panicked"
    /\ panic_msg' = m
    /\ UNCHANGED <<feature, macro, item, attr, local, output>>

\* The macro is at `at` and moves on to `to`.
Goto(at, to) == pc = at /\ pc' = to

\* parse_macro_input!(item as ItemFn) of `main` (lib.rs 44).
MainParseItem ==
    /\ macro = "main" /\ pc = "start"
    /\ IF item.parses
       THEN /\ pc' = "item_parsed"
            /\ UNCHANGED output
       ELSE /\ pc' = "returned"
            /\ output' = CompileError
    /\ UNCHANGED <<feature, macro, item, attr, local, panic_msg, runVars>>

\* check_main_function_signature(&main_func.sig) (lib.rs 46).
MainCheckSignature ==
    /\ macro = "main" /\ pc = "item_parsed"
    /\ LET r == check_main_function_signature(item.sig) IN
       IF r = Ok
       THEN /\ pc' = "checked"
            /\ UNCHANGED <<feature, macro, item, attr, local, panic_msg, output>>
       ELSE Panic(r)
    /\ UNCHANGED runVars

\* func_name and the trampoline of `main` (lib.rs 49-64).
MainFormatTrampoline ==
    /\ macro = "main" /\ Goto("checked", "trampoline_formatted")
    /\ LET func_name == item.sig.ident IN
       local' = [local EXCEPT !.func_name = func_name,
                              !.trampoline = format_main_trampoline(func_name, item.sig)]
    /\ UNCHANGED <<feature, macro, item, attr, panic_msg, output, runVars>>

\* quote! { #trampoline #main_func }.into() (lib.rs 67-71).
MainReturn ==
    /\ macro = "main" /\ Goto("trampoline_formatted", "returned")
    /\ output' = <<local.trampoline, Original(item)>>
    /\ UNCHANGED <<feature, macro, item, attr, local, panic_msg, runVars>>

\* parse_macro_input!(item as ItemFn) of `handler` (lib.rs 133).
HandlerParseItem ==
    /\ macro = "handler" /\ pc = "start"
    /\ IF item.parses
       THEN /\ pc' = "item_parsed"
            /\ UNCHANGED output
       ELSE /\ pc' = "returned"
            /\ output' = CompileError
    /\ UNCHANGED <<feature, macro, item, attr, local, panic_msg, runVars>>

\* parse_macro_input!(attr as AttributeArgs) (lib.rs 136).
HandlerParseAttr ==
    /\ macro = "handler" /\ pc = "item_parsed"
    /\ IF attr.parses
       THEN /\ pc' = "attr_parsed"
            /\ UNCHANGED output
       ELSE /\ pc' = "returned"
            /\ output' = CompileError
    /\ UNCHANGED <<feature, macro, item, attr, local, panic_msg, runVars>>

\* A handler macro that resolves the IRQ name before it checks the signature.
HandlerCheckSignature_after_name ==
    /\ macro = "handler" /\ pc = "attr_parsed"
    /\ LET n == parse_attribute_arg_to_irq(attr.args, feature)
           r == check_handler_function_signature(item.sig) IN
       IF ~n.ok THEN Panic(n.msg)
       ELSE IF r # Ok THEN Panic(r)
       ELSE /\ pc' = "checked"
            /\ UNCHANGED <<feature, macro, item, attr, local, panic_msg, output>>
    /\ UNCHANGED runVars

\* check_handler_function_signature(&handler_func.sig) (lib.rs 138).
HandlerCheckSignature ==
    /\ macro = "handler" /\ pc = "attr_parsed"
    /\ LET r == check_handler_function_signature(item.sig) IN
       IF r = Ok
       THEN /\ pc' = "checked"
            /\ UNCHANGED <<feature, macro, item, attr, local, panic_msg, output>>
       ELSE Panic(r)
    /\ UNCHANGED runVars

\* irq, lower_caes_irq and func_name (lib.rs 140-144).
HandlerResolveIrq ==
    /\ macro = "handler" /\ pc = "checked"
    /\ LET n == parse_attribute_arg_to_irq(attr.args, feature) IN
       IF n.ok
       THEN /\ pc' = "resolved"
            /\ local' = [local EXCEPT !.irq = n.irq,
                                      !.lower_caes_irq = to_lowercase(n.irq),
                                      !.func_name = item.sig.ident]
            /\ UNCHANGED <<feature, macro, item, attr, panic_msg, output>>
       ELSE Panic(n.msg)
    /\ UNCHANGED runVars

\* entry_asm (lib.rs 146-176).
HandlerFormatEntry ==
    /\ macro = "handler" /\ Goto("resolved", "entry_formatted")
    /\ local' = [local EXCEPT
                   !.entry_asm = format_entry_asm(local.irq, local.lower_caes_irq)]
    /\ UNCHANGED <<feature, macro, item, attr, panic_msg, output, runVars>>

\* trampoline (lib.rs 178-190).
HandlerFormatTrampoline ==
    /\ macro = "handler" /\ Goto("entry_formatted", "trampoline_formatted")
    /\ local' = [local EXCEPT
                   !.trampoline = format_trampoline(local.lower_caes_irq, local.func_name)]
    /\ UNCHANGED <<feature, macro, item, attr, panic_msg, output, runVars>>

\* A handler macro that leaves the trampoline out of what it returns.
HandlerReturn_no_trampoline ==
    /\ macro = "handler" /\ Goto("trampoline_formatted", "returned")
    /\ output' = <<local.entry_asm, Original(item)>>
    /\ UNCHANGED <<feature, macro, item, attr, local, panic_msg, runVars>>

\* quote! { #entry_asm #trampoline #handler_func }.into() (lib.rs 193-198).
HandlerReturn ==
    /\ macro = "handler" /\ Goto("trampoline_formatted", "returned")
    /\ output' = <<local.entry_asm, local.trampoline, Original(item)>>
    /\ UNCHANGED <<feature, macro, item, attr, local, panic_msg, runVars>>

\* The crate is built with one MCU model feature or none, and one of its
\* macros is applied to an item.
Init ==
    /\ feature \in Features \cup {"none"}
    /\ macro \in {"main", "handler"}
    /\ item \in {NoItemFn} \cup {ItemFn(sig) : sig \in Signatures}
    /\ attr \in {NoAttributeArgs} \cup {AttrArgs(a) : a \in AttributeArgs}
    /\ macro = "main" => attr = AttrArgs(<<>>)
    /\ pc = "start"
    /\ local = NoLocals
    /\ panic_msg = NoPanic
    /\ output = <<>>
    /\ cpu = IdleCpu
    /\ mem = <<>>
    /\ run = IdleRun
    /\ isr_unwinding = FALSE
    /\ ghost = IdleGhost
    /\ preempted = <<>>

Next ==
    \/ MainParseItem
    \/ MainCheckSignature
    \/ MainFormatTrampoline
    \/ MainReturn
    \/ HandlerParseItem
    \/ HandlerParseAttr
    \/ HandlerCheckSignature
    \/ HandlerResolveIrq
    \/ HandlerFormatEntry
    \/ HandlerFormatTrampoline
    \/ HandlerReturn

Spec == Init /\ [][Next]_vars

-----------------------------------------------------------------------------
(* The generated handler code at run time: the entry sequence on the       *)
(* registers, the stack and the TLS fields; the dispatch trampoline on the *)
(* ISR unwinding flag.                                                     *)

\* Largest value of a TLS field under test.
MaxWord == 1
\* Words of stack below the stack pointer at exception entry.
StackWords == 4

\* hopter::config::__TLS_MEM_ADDR, the asm! operand tls_mem_addr (lib.rs 166).
\* The value is the kernel's; the model needs a word aligned address.
TLS_MEM_ADDR == 32
\* hopter::config::__CONTIGUOUS_STACK_BOUNDARY, the asm! operand
\* cont_stk_boundary (lib.rs 167).  The value is the kernel's.
CONTIGUOUS_STACK_BOUNDARY == 9

\* The value of a `const` operand of the asm! block.
ConstValue(path) ==
    CASE path = "hopter::config::__TLS_MEM_ADDR" -> TLS_MEM_ADDR
      [] path = "hopter::config::__CONTIGUOUS_STACK_BOUNDARY" -> CONTIGUOUS_STACK_BOUNDARY

\* The three TLS fields the entry sequence saves (ldmia r0, {r1-r3}).
TlsAddrs == {TLS_MEM_ADDR, TLS_MEM_ADDR + 4, TLS_MEM_ADDR + 8}
\* The stack pointer when the exception is taken, and the stack below it.
StackTop == TLS_MEM_ADDR + 64
StackAddrs == {StackTop - 4 * k : k \in 1..StackWords}

\* EXC_RETURN values the core puts in lr at exception entry (0xFFFFFFF1,
\* 0xFFFFFFF9, 0xFFFFFFFD as 32 bit two's complement).
ExcReturns == {-15, -7, -3}

\* Values a TLS field holds when the interrupt is taken.
Words == (0..MaxWord) \cup {CONTIGUOUS_STACK_BOUNDARY}
\* Values a caller saved register holds after a call.
Clobbers == {0, TLS_MEM_ADDR + 4}

\* The TLS fields in memory m.
Tls(m) == <<m[TLS_MEM_ADDR], m[TLS_MEM_ADDR + 4], m[TLS_MEM_ADDR + 8]>>

\* Index of register r in the register list regs.
RegIndex(regs, r) == CHOOSE i \in 1..Len(regs) : regs[i] = r
InList(regs, r) == \E i \in 1..Len(regs) : regs[i] = r

\* Registers of the list loaded from ascending addresses starting at a.
LoadMultiple(c, m, a, regs) ==
    [r \in DOMAIN c |-> IF InList(regs, r) THEN m[a + 4 * (RegIndex(regs, r) - 1)] ELSE c[r]]

\* Registers of the list stored to ascending addresses starting at a.
StoreMultiple(c, m, a, regs) ==
    [x \in DOMAIN m |->
        IF \E i \in 1..Len(regs) : x = a + 4 * (i - 1)
        THEN c[regs[CHOOSE i \in 1..Len(regs) : x = a + 4 * (i - 1)]]
        ELSE m[x]]

\* The addresses an instruction reads or writes.
Touched(ins, c) ==
    CASE ins.op \in {"ldmia", "stmia", "strd"} ->
           {c[ins.rn] + 4 * (i - 1) : i \in 1..Len(ins.regs)}
      [] ins.op = "str" -> {c[ins.rn] + ins.imm}
      [] ins.op = "push" -> {c.sp - 4 * i : i \in 1..Len(ins.regs)}
      [] ins.op = "pop" -> {c.sp + 4 * (i - 1) : i \in 1..Len(ins.regs)}
      [] OTHER -> {}

\* The effect of one instruction of the entry sequence `frag` on the
\* registers c and the memory m.
Execute(ins, frag, c, m) ==
    CASE ins.op = "ldr=" ->
           [cpu |-> [c EXCEPT ![ins.regs[1]] = ConstValue(frag[ins.ref])], mem |-> m]
      [] ins.op = "mov" ->
           [cpu |-> [c EXCEPT ![ins.regs[1]] = ins.imm], mem |-> m]
      [] ins.op = "ldmia" ->
           [cpu |-> LoadMultiple(c, m, c[ins.rn], ins.regs), mem |-> m]
      [] ins.op = "stmia" ->
           [cpu |-> c, mem |-> StoreMultiple(c, m, c[ins.rn], ins.regs)]
      [] ins.op = "strd" ->
           [cpu |-> c, mem |-> StoreMultiple(c, m, c[ins.rn], ins.regs)]
      [] ins.op = "str" ->
           [cpu |-> c, mem |-> StoreMultiple(c, m, c[ins.rn] + ins.imm, ins.regs)]
      [] ins.op = "push" ->
           LET a == c.sp - 4 * Len(ins.regs) IN
           [cpu |-> [c EXCEPT !.sp = a], mem |-> StoreMultiple(c, m, a, ins.regs)]
      [] ins.op = "pop" ->
           [cpu |-> [LoadMultiple(c, m, c.sp, ins.regs) EXCEPT
                        !.sp = c.sp + 4 * Len(ins.regs)],
            mem |-> m]


\* The instruction the entry sequence is at.
EntryFrag == output[1]
CurrentIns == EntryFrag.asm[run.ip]
IsPopPc(ins) == ins.op = "pop" /\ InList(ins.regs, "pc")

\* The generated functions defined under the symbol sym.
Defined(sym) ==
    {i \in 1..Len(output) : output[i].kind = "fn" /\ output[i].name = sym}

\* The statement the dispatch trampoline is at.
CurrentStmt == output[run.code].body[run.ip]

\* The value bound to the variable v of the running trampoline.
Bound(v) == (CHOOSE p \in run.env : p[1] = v)[2]

\* An instruction of the entry sequence other than a branch.  An access
\* outside the TLS fields and the stack faults.
EntryExecute ==
    /\ run.at = "entry" /\ run.ip <= Len(EntryFrag.asm)
    /\ CurrentIns.op # "bl" /\ ~IsPopPc(CurrentIns)
    /\ IF Touched(CurrentIns, cpu) \subseteq DOMAIN mem
       THEN LET e == Execute(CurrentIns, EntryFrag, cpu, mem) IN
            /\ cpu' = e.cpu
            /\ mem' = e.mem
            /\ run' = [run EXCEPT !.ip = run.ip + 1]
       ELSE /\ run' = [run EXCEPT !.at = "fault"]
            /\ UNCHANGED <<cpu, mem>>
    /\ UNCHANGED <<macroVars, preempted, isr_unwinding, ghost>>

\* bl {handler_trampoline} (lib.rs 160): lr receives the return address and
\* the function the `sym` operand names starts.
EntryBl ==
    /\ run.at = "entry" /\ run.ip <= Len(EntryFrag.asm)
    /\ CurrentIns.op = "bl"
    /\ LET target == Defined(EntryFrag[CurrentIns.ref]) IN
       /\ target # {}
       /\ cpu' = [cpu EXCEPT !.lr = run.ip + 1]
       /\ run' = [at |-> "trampoline", ip |-> 1, ret |-> run.ip + 1,
                  code |-> CHOOSE i \in target : TRUE, env |-> {}]
    /\ UNCHANGED <<macroVars, preempted, mem, isr_unwinding, ghost>>

\* pop {pc} (lib.rs 165): the word on top of the stack becomes the program
\* counter; an EXC_RETURN value there makes the core return from the
\* exception.
EntryPopPc ==
    /\ run.at = "entry" /\ run.ip <= Len(EntryFrag.asm)
    /\ IsPopPc(CurrentIns)
    /\ IF Touched(CurrentIns, cpu) \subseteq DOMAIN mem
       THEN LET e == Execute(CurrentIns, EntryFrag, cpu, mem) IN
            /\ cpu' = e.cpu
            /\ mem' = e.mem
            /\ run' = [run EXCEPT !.at = IF e.cpu.pc \in ExcReturns
                                         THEN "exception_return" ELSE "branch"]
       ELSE /\ run' = [run EXCEPT !.at = "fault"]
            /\ UNCHANGED <<cpu, mem>>
    /\ UNCHANGED <<macroVars, preempted, isr_unwinding, ghost>>

\* let prev_is_handler_unwinding = save_and_clear_isr_unwinding(); (lib.rs 181)
TrampolineSaveAndClear ==
    /\ run.at = "trampoline" /\ run.ip <= Len(output[run.code].body)
    /\ CurrentStmt.call = "hopter::unwind::unwind::save_and_clear_isr_unwinding"
    /\ run' = [run EXCEPT !.ip = run.ip + 1,
                          !.env = run.env \cup {<<CurrentStmt.bind, isr_unwinding>>}]
    /\ isr_unwinding' = FALSE
    /\ UNCHANGED <<macroVars, preempted, cpu, mem, ghost>>

\* let _ = catch_unwind(func_name); (lib.rs 182): the user's handler starts.
TrampolineCatchUnwind ==
    /\ run.at = "trampoline" /\ run.ip <= Len(output[run.code].body)
    /\ CurrentStmt.call = "hopter::unwind::unw_catch::catch_unwind"
    /\ \E i \in 1..Len(output) :
          /\ output[i].kind = "item"
          /\ output[i].item.sig.ident = CurrentStmt.arg
    /\ run' = [run EXCEPT !.at = "handler"]
    /\ ghost' = [ghost EXCEPT !.flag_in_handler = isr_unwinding,
                              !.tls_in_handler = Tls(mem)]
    /\ UNCHANGED <<macroVars, preempted, cpu, mem, isr_unwinding>>

\* The user's handler returns.
UserHandlerReturns ==
    /\ run.at = "handler"
    /\ run' = [run EXCEPT !.at = "trampoline", !.ip = run.ip + 1]
    /\ ghost' = [ghost EXCEPT !.outcome = "returned"]
    /\ UNCHANGED <<macroVars, preempted, cpu, mem, isr_unwinding>>

\* The user's handler panics.  The unwinder may leave the flag set or clear;
\* catch_unwind stops the unwinding and returns the error, which the
\* statement binds to `_`.
UserHandlerPanics ==
    /\ run.at = "handler"
    /\ \E b \in BOOLEAN : isr_unwinding' = b
    /\ run' = [run EXCEPT !.at = "trampoline", !.ip = run.ip + 1]
    /\ ghost' = [ghost EXCEPT !.outcome = "panicked"]
    /\ UNCHANGED <<macroVars, preempted, cpu, mem>>

\* set_isr_unwinding(prev_is_handler_unwinding); (lib.rs 183)
TrampolineSetIsrUnwinding ==
    /\ run.at = "trampoline" /\ run.ip <= Len(output[run.code].body)
    /\ CurrentStmt.call = "hopter::unwind::unwind::set_isr_unwinding"
    /\ isr_unwinding' = Bound(CurrentStmt.arg)
    /\ run' = [run EXCEPT !.ip = run.ip + 1]
    /\ UNCHANGED <<macroVars, preempted, cpu, mem, ghost>>

\* The trampoline returns to the address it was called with.  It is an
\* extern "C" function: sp is as at the call, r0-r3 and lr hold anything.
TrampolineReturn ==
    /\ run.at = "trampoline" /\ run.ip > Len(output[run.code].body)
    /\ \E v0, v1, v2, v3, vl \in Clobbers :
          cpu' = [cpu EXCEPT !.r0 = v0, !.r1 = v1, !.r2 = v2, !.r3 = v3, !.lr = vl]
    /\ run' = [run EXCEPT !.at = "entry", !.ip = run.ret]
    /\ ghost' = [ghost EXCEPT !.trampoline_returned = TRUE,
                              !.flag_at_return = isr_unwinding]
    /\ UNCHANGED <<macroVars, preempted, mem, isr_unwinding>>

\* The IRQs taken in the runs, each with a feature that supports it.
RunIrqs == {<<"stm32f401", TIM2>>, <<"stm32f469", DSIHOST>>}

\* A handler that `handler` accepts.
RunSignature ==
    [ident |-> <<"t","i","c","k","_","h","a","n","d","l","e","r">>, inputs |-> <<>>,
     output |-> RetDefault, abi |-> NoAbi, asyncness |-> FALSE, unsafety |-> FALSE,
     variadic |-> FALSE]

\* The macro has expanded `#[handler(IRQ)] fn tick_handler() {}`, the IRQ is
\* taken: the core has stacked the exception frame, put an EXC_RETURN value
\* in lr and fetched the entry sequence from the vector exported as IRQ.
InitRun ==
    /\ \E fi \in RunIrqs :
          LET n == parse_attribute_arg_to_irq(<<MetaPath(FALSE, <<fi[2]>>)>>, fi[1])
              lower == to_lowercase(n.irq) IN
          /\ n.ok /\ check_handler_function_signature(RunSignature) = Ok
          /\ feature = fi[1]
          /\ attr = AttrArgs(<<MetaPath(FALSE, <<fi[2]>>)>>)
          /\ local = [irq |-> n.irq, lower_caes_irq |-> lower,
                      func_name |-> RunSignature.ident,
                      entry_asm |-> format_entry_asm(n.irq, lower),
                      trampoline |-> format_trampoline(lower, RunSignature.ident)]
    /\ macro = "handler"
    /\ item = ItemFn(RunSignature)
    /\ pc = "returned"
    /\ panic_msg = NoPanic
    /\ output = <<local.entry_asm, local.trampoline, Original(item)>>
    /\ \E t1, t2, t3 \in Words :
          mem = [a \in TlsAddrs \cup StackAddrs |->
                    CASE a = TLS_MEM_ADDR -> t1
                      [] a = TLS_MEM_ADDR + 4 -> t2
                      [] a = TLS_MEM_ADDR + 8 -> t3
                      [] OTHER -> 0]
    /\ \E x \in ExcReturns :
          cpu = [r0 |-> 0, r1 |-> 0, r2 |-> 0, r3 |-> 0, lr |-> x, sp |-> StackTop,
                 pc |-> 0]
    /\ run = [at |-> "entry", ip |-> 1, ret |-> 0, code |-> 1, env |-> {}]
    /\ isr_unwinding \in BOOLEAN
    /\ ghost = [tls0 |-> Tls(mem), lr0 |-> cpu.lr, sp0 |-> cpu.sp,
                flag0 |-> isr_unwinding, outcome |-> "none",
                flag_in_handler |-> FALSE, tls_in_handler |-> <<>>,
                trampoline_returned |-> FALSE, flag_at_return |-> FALSE]
    /\ preempted = <<>>

NextRun ==
    \/ EntryExecute
    \/ EntryBl
    \/ EntryPopPc
    \/ TrampolineSaveAndClear
    \/ TrampolineCatchUnwind
    \/ UserHandlerReturns
    \/ UserHandlerPanics
    \/ TrampolineSetIsrUnwinding
    \/ TrampolineReturn

SpecRun == InitRun /\ [][NextRun]_vars

-----------------------------------------------------------------------------
(* Nested interrupts.  The entry sequence runs with interrupts enabled, so  *)
(* an interrupt of higher priority can be taken between any two of its      *)
(* instructions, and while the trampoline and the user's handler run.  The  *)
(* core stacks r0-r3, r12, lr, the return address and xPSR below the stack  *)
(* pointer, puts the EXC_RETURN of handler mode in lr and starts the entry  *)
(* sequence of the other handler.  The entry sequences of all handlers are  *)
(* the same instructions up to the names of their symbols, so the           *)
(* preempting sequence is run from the same fragment.                       *)

\* Interrupts nested inside the outermost one.
MaxNesting == 1

\* The stack pointer when the outermost interrupt is taken, and the stack
\* below it: room for the words each entry sequence pushes and, for each
\* nested interrupt, an exception frame with its alignment word.
NestedStackTop == TLS_MEM_ADDR + 64 * (MaxNesting + 1)
NestedStackAddrs ==
    {NestedStackTop - 4 * k : k \in 1..(StackWords + 13 * MaxNesting)}

\* What the outermost interrupt interrupts: the TLS fields, the EXC_RETURN
\* the core puts in lr and the unwinding flag.  A task running on the
\* process stack, code on the main stack whose TLS fields are those of a
\* handler, or a handler not generated by the macro that is unwinding.
NestedStarts ==
    { [tls |-> <<0, 1, 1>>, lr |-> 0 - 3, flag |-> FALSE],
      [tls |-> <<CONTIGUOUS_STACK_BOUNDARY, 0, 0>>, lr |-> 0 - 7, flag |-> FALSE],
      [tls |-> <<1, 0, CONTIGUOUS_STACK_BOUNDARY>>, lr |-> 0 - 15, flag |-> TRUE] }

\* EXC_RETURN of an exception that preempted a handler (0xFFFFFFF1).
HandlerModeReturn == 0 - 15

\* The history of a handler that starts with registers c, memory m and
\* unwinding flag f; `nested` is the deepest nesting of interrupts that
\* preempted it and have returned.
LevelGhost(c, m, f) ==
    [tls0 |-> Tls(m), lr0 |-> c.lr, sp0 |-> c.sp, flag0 |-> f,
     outcome |-> "none", flag_in_handler |-> FALSE, tls_in_handler |-> <<>>,
     trampoline_returned |-> FALSE, flag_at_return |-> FALSE,
     nested |-> 0]

\* The words of the exception frame at address base.
FrameAddrs(base) == {base + 4 * k : k \in 0..7}

\* The stack of the running code in memory m: the words at and above sp.
ActiveStack(m, sp) == [a \in {x \in DOMAIN m : x >= sp /\ x \notin TlsAddrs} |-> m[a]]

\* An interrupt of higher priority is taken.  The frame is 8 byte aligned:
\* the core skips a word if sp is not, and notes it in the stacked xPSR.
Preempt ==
    /\ Len(preempted) < MaxNesting
    /\ \/ run.at = "entry" /\ run.ip <= Len(EntryFrag.asm)
       \/ run.at \in {"trampoline", "handler"}
    /\ LET pad == cpu.sp % 8
           base == cpu.sp - pad - 32
       IN IF FrameAddrs(base) \subseteq DOMAIN mem
          THEN /\ mem' = [a \in DOMAIN mem |->
                            CASE a = base -> cpu.r0
                              [] a = base + 4 -> cpu.r1
                              [] a = base + 8 -> cpu.r2
                              [] a = base + 12 -> cpu.r3
                              [] a = base + 16 -> 0
                              [] a = base + 20 -> cpu.lr
                              [] a = base + 24 -> cpu.pc
                              [] a = base + 28 -> pad
                              [] OTHER -> mem[a]]
               /\ cpu' = [cpu EXCEPT !.sp = base, !.lr = HandlerModeReturn]
               /\ preempted' = Append(preempted,
                                  [run |-> run, ghost |-> ghost, cpu |-> cpu,
                                   tls |-> Tls(mem),
                                   stack |-> ActiveStack(mem, cpu.sp)])
               /\ run' = [at |-> "entry", ip |-> 1, ret |-> 0, code |-> 1, env |-> {}]
               /\ ghost' = LevelGhost(cpu', mem', isr_unwinding)
          ELSE /\ run' = [run EXCEPT !.at = "fault"]
               /\ UNCHANGED <<cpu, mem, ghost, preempted>>
    /\ UNCHANGED <<macroVars, isr_unwinding>>

\* The exception return of a nested handler: the core unstacks the frame at
\* sp and the preempted code goes on where it was.  Only the EXC_RETURN of
\* handler mode is a legal return to a preempted handler.  The words below
\* the stack pointer of the resumed code are dead, any later interrupt
\* overwrites them: they are 0 from here on.
ExceptionReturn ==
    /\ run.at = "exception_return" /\ preempted # <<>>
    /\ LET base == cpu.sp
           p == preempted[Len(preempted)]
       IN IF cpu.pc = HandlerModeReturn /\ FrameAddrs(base) \subseteq DOMAIN mem
          THEN /\ cpu' = [r0 |-> mem[base], r1 |-> mem[base + 4],
                          r2 |-> mem[base + 8], r3 |-> mem[base + 12],
                          lr |-> mem[base + 20], pc |-> mem[base + 24],
                          sp |-> base + 32 + mem[base + 28]]
               /\ run' = p.run
               /\ ghost' = [p.ghost EXCEPT
                             !.nested = IF @ > ghost.nested THEN @
                                        ELSE ghost.nested + 1]
               /\ mem' = [a \in DOMAIN mem |->
                            IF a \in TlsAddrs \/ a >= cpu'.sp THEN mem[a] ELSE 0]
               /\ preempted' = SubSeq(preempted, 1, Len(preempted) - 1)
          ELSE /\ run' = [run EXCEPT !.at = "fault"]
               /\ UNCHANGED <<cpu, mem, ghost, preempted>>
    /\ UNCHANGED <<macroVars, isr_unwinding>>

\* The trampoline returns to the address it was called with, as in
\* TrampolineReturn; here r0-r3 and lr all hold the same leftover value.
NestedTrampolineReturn ==
    /\ run.at = "trampoline" /\ run.ip > Len(output[run.code].body)
    /\ \E v \in Clobbers :
          cpu' = [cpu EXCEPT !.r0 = v, !.r1 = v, !.r2 = v, !.r3 = v, !.lr = v]
    /\ run' = [run EXCEPT !.at = "entry", !.ip = run.ret]
    /\ ghost' = [ghost EXCEPT !.trampoline_returned = TRUE,
                              !.flag_at_return = isr_unwinding]
    /\ UNCHANGED <<macroVars, preempted, mem, isr_unwinding>>

\* The macro has expanded `#[handler(TIM2)] fn tick_handler() {}` and the
\* outermost interrupt is taken.
InitNested ==
    /\ LET n == parse_attribute_arg_to_irq(<<MetaPath(FALSE, <<TIM2>>)>>, "stm32f401")
           lower == to_lowercase(n.irq) IN
       /\ n.ok /\ check_handler_function_signature(RunSignature) = Ok
       /\ feature = "stm32f401"
       /\ attr = AttrArgs(<<MetaPath(FALSE, <<TIM2>>)>>)
       /\ local = [irq |-> n.irq, lower_caes_irq |-> lower,
                   func_name |-> RunSignature.ident,
                   entry_asm |-> format_entry_asm(n.irq, lower),
                   trampoline |-> format_trampoline(lower, RunSignature.ident)]
    /\ macro = "handler"
    /\ item = ItemFn(RunSignature)
    /\ pc = "returned"
    /\ panic_msg = NoPanic
    /\ output = <<local.entry_asm, local.trampoline, Original(item)>>
    /\ \E s \in NestedStarts :
          /\ mem = [a \in TlsAddrs \cup NestedStackAddrs |->
                       CASE a = TLS_MEM_ADDR -> s.tls[1]
                         [] a = TLS_MEM_ADDR + 4 -> s.tls[2]
                         [] a = TLS_MEM_ADDR + 8 -> s.tls[3]
                         [] OTHER -> 0]
          /\ cpu = [r0 |-> 0, r1 |-> 0, r2 |-> 0, r3 |-> 0, lr |-> s.lr,
                    sp |-> NestedStackTop, pc |-> 0]
          /\ isr_unwinding = s.flag
    /\ run = [at |-> "entry", ip |-> 1, ret |-> 0, code |-> 1, env |-> {}]
    /\ ghost = LevelGhost(cpu, mem, isr_unwinding)
    /\ preempted = <<>>

NextNested ==
    \/ EntryExecute
    \/ EntryBl
    \/ EntryPopPc
    \/ TrampolineSaveAndClear
    \/ TrampolineCatchUnwind
    \/ UserHandlerReturns
    \/ UserHandlerPanics
    \/ TrampolineSetIsrUnwinding
    \/ NestedTrampolineReturn
    \/ Preempt
    \/ ExceptionReturn

SpecNested == InitNested /\ [][NextNested]_vars

-----------------------------------------------------------------------------
(* Properties of the expansion (specification Spec).                       *)

\* Both token streams parsed: the macro works on a declaration and an
\* argument list.
Parsed == item.parses /\ attr.parses
\* The signature check of `handler` let the declaration through: the macro
\* went on, or stopped later at the IRQ name.
HandlerSigAccepted ==
    \/ pc \in {"checked", "resolved", "entry_formatted", "trampoline_formatted", "returned"}
    \/ pc = "panicked" /\ panic_msg = hander_macro_arg_error
\* The signature check of `handler` stopped the macro.
HandlerSigRejected == pc = "panicked" /\ panic_msg # hander_macro_arg_error

\* The reasons check_handler_function_signature gives.
HandlerSignatureMsgs ==
    {"Handler function should not have any parameter.", hander_macro_retval_error,
     "Handler function must have Rust ABI.", "Handler function cannot be 'async'.",
     "Handler function cannot be variadic."}

IsUnitOrAbsent(out) == out = RetDefault \/ out = RetTuple(0)
\* A declared calling convention other than the native one.
ForeignAbi(abi) == abi.some /\ abi.name # "Rust"

\* The declaration breaks a rule of the handler signature.
ViolatesHandlerRule(sig) ==
    \/ Len(sig.inputs) # 0
    \/ ~IsUnitOrAbsent(sig.output)
    \/ ForeignAbi(sig.abi)
    \/ sig.asyncness
    \/ sig.variadic

\* C1: `handler` checks the signature before it resolves the IRQ name: a
\* declaration that breaks a signature rule never gets past the check, and
\* the panic carries a signature reason, never the argument error, whatever
\* the argument list is; a declaration whose first broken rule is the
\* calling convention gets the calling convention reason.
C1_SignatureBeforeName ==
    (macro = "handler" /\ Parsed /\ ViolatesHandlerRule(item.sig)) =>
        /\ pc \in {"start", "item_parsed", "attr_parsed", "panicked"}
        /\ pc = "panicked" =>
              /\ panic_msg \in HandlerSignatureMsgs
              /\ panic_msg # hander_macro_arg_error
              /\ (/\ Len(item.sig.inputs) = 0
                  /\ IsUnitOrAbsent(item.sig.output)
                  /\ ForeignAbi(item.sig.abi))
                 => panic_msg = "Handler function must have Rust ABI."

\* C1 witness: a declaration with a foreign calling convention and an
\* argument that names no IRQ of the MCU was rejected for the convention.
C1_Witness ==
    /\ macro = "handler" /\ Parsed /\ pc = "panicked"
    /\ item.sig.abi = SomeAbi("C") /\ Len(item.sig.inputs) = 0
    /\ attr.args = <<MetaPath(FALSE, <<NOT_A_REAL_IRQ>>)>>
    /\ panic_msg = "Handler function must have Rust ABI."

\* What the documentation of `main` asks of the signature, but for the type
\* of the parameter.
MainAcceptable(sig) ==
    /\ Len(sig.inputs) = 1
    /\ sig.output \in {RetDefault, RetTuple(0), RetNever}
    /\ ~sig.asyncness /\ ~sig.unsafety /\ ~sig.variadic

\* C2: check_main_function_signature lets a declaration through exactly if
\* it has one parameter, returns nothing, () or !, and is not async, unsafe
\* or variadic; the type of the parameter and the declared calling
\* convention play no part.
C2_MainAcceptsIff ==
    (macro = "main" /\ item.parses) =>
        /\ pc \in {"checked", "trampoline_formatted", "returned"} => MainAcceptable(item.sig)
        /\ pc = "panicked" => ~MainAcceptable(item.sig)
        /\ pc = "item_parsed" =>
              \A t \in ParamTypes, a \in Abis :
                 Len(item.sig.inputs) = 1 =>
                    check_main_function_signature(
                        [item.sig EXCEPT !.inputs = <<t>>, !.abi = a])
                    = IF MainAcceptable(item.sig)
                      THEN Ok ELSE check_main_function_signature(item.sig)

\* C2 witness: a main function taking a u32 and declared extern "C" went
\* through.
C2_Witness ==
    /\ macro = "main" /\ item.parses /\ pc = "returned"
    /\ item.sig.inputs = <<"u32">> /\ item.sig.abi = SomeAbi("C")

\* What the documentation of `handler` asks of the signature.
HandlerAcceptable(sig) ==
    /\ Len(sig.inputs) = 0
    /\ IsUnitOrAbsent(sig.output)
    /\ ~sig.asyncness /\ ~sig.variadic

\* C3: with no declared calling convention, check_handler_function_signature
\* lets a declaration through exactly if it has no parameter, returns
\* nothing or (), and is not async or variadic, unsafe or not; a handler
\* returning ! is rejected for its return type, which `main` never rejects.
C3_HandlerAcceptsIff ==
    /\ (macro = "handler" /\ Parsed /\ ~item.sig.abi.some) =>
          /\ HandlerSigAccepted => HandlerAcceptable(item.sig)
          /\ HandlerSigRejected => ~HandlerAcceptable(item.sig)
          /\ (pc = "panicked" /\ Len(item.sig.inputs) = 0 /\ item.sig.output = RetNever)
                => panic_msg = hander_macro_retval_error
    /\ (macro = "main" /\ item.parses /\ pc = "panicked" /\ item.sig.output = RetNever)
          => panic_msg # hander_macro_retval_error

\* C3 witness: an unsafe handler without parameters that returns ! was
\* rejected for its return type.
C3_Witness ==
    /\ macro = "handler" /\ Parsed /\ pc = "panicked"
    /\ ~item.sig.abi.some /\ Len(item.sig.inputs) = 0 /\ item.sig.output = RetNever
    /\ item.sig.unsafety
    /\ panic_msg = hander_macro_retval_error

\* C4: among the declarations that pass the arity and return type rules, the
\* check rejects for the calling convention exactly those that declare a
\* convention other than the native one.
C4_RejectsForeignAbiOnly ==
    (/\ macro = "handler" /\ Parsed
     /\ pc \notin {"start", "item_parsed", "attr_parsed"}
     /\ Len(item.sig.inputs) = 0 /\ IsUnitOrAbsent(item.sig.output)) =>
        ((pc = "panicked" /\ panic_msg = "Handler function must have Rust ABI.")
            <=> ForeignAbi(item.sig.abi))

\* The argument list names an IRQ of the registry of feature f: one element,
\* a bare identifier, registered as written.
NamesSupportedIrq(args, f) ==
    /\ Len(args) = 1
    /\ args[1].kind = "Meta::Path"
    /\ ~args[1].leading_colon
    /\ Len(args[1].segments) = 1
    /\ args[1].segments[1] \in SUPPORTED_IRQS(f)

HandlerResolved == pc \in {"resolved", "entry_formatted", "trampoline_formatted", "returned"}

\* C5: parse_attribute_arg_to_irq succeeds exactly if the list has one
\* element, a bare identifier that the active registry holds in the same
\* case, and returns the identifier as written; a list of no or two
\* elements fails, and so does every list when no feature is set.
C5_ResolvesIff ==
    (macro = "handler" /\ Parsed) =>
        /\ HandlerResolved =>
              /\ NamesSupportedIrq(attr.args, feature)
              /\ local.irq = attr.args[1].segments[1]
        /\ (pc = "panicked" /\ panic_msg = hander_macro_arg_error)
              => ~NamesSupportedIrq(attr.args, feature)
        /\ Len(attr.args) # 1 => ~HandlerResolved
        /\ feature = "none" => ~HandlerResolved

\* C5 witness: two arguments, each the name of an IRQ of the MCU, failed.
C5_Witness ==
    /\ macro = "handler" /\ Parsed
    /\ pc = "panicked" /\ panic_msg = hander_macro_arg_error
    /\ attr.args = <<MetaPath(FALSE, <<TIM2>>), MetaPath(FALSE, <<TIM2>>)>>
    /\ TIM2 \in SUPPORTED_IRQS(feature)

\* The output holds every fragment of the macro.
CompleteOutput ==
    IF macro = "handler"
    THEN /\ Len(output) = 3
         /\ output[1].kind = "entry" /\ output[2].kind = "fn" /\ output[3].kind = "item"
    ELSE /\ Len(output) = 2
         /\ output[1].kind = "fn" /\ output[2].kind = "item"

\* C6: an expansion is all or nothing: until the macro returns nothing is
\* emitted, a macro that panicked has emitted nothing and has not even
\* built a fragment, and a macro that returned gave every fragment.
C6_AllOrNothing ==
    Parsed =>
        /\ pc # "returned" => output = <<>>
        /\ pc = "returned" => CompleteOutput
        /\ pc = "panicked" =>
              local.entry_asm = NoFragment /\ local.trampoline = NoFragment

\* C6 witness: a handler with a good signature and an unknown IRQ name was
\* rejected at the last check, with nothing emitted.
C6_Witness ==
    /\ macro = "handler" /\ Parsed
    /\ pc = "panicked" /\ panic_msg = hander_macro_arg_error
    /\ attr.args = <<MetaPath(FALSE, <<NOT_A_REAL_IRQ>>)>>
    /\ output = <<>>

\* The lowercase of the IRQ names written in the arguments under test,
\* spelt out.
SpeltLower(n) ==
    CASE n = TIM2 -> <<"t","i","m","2">>
      [] n = DSIHOST -> <<"d","s","i","h","o","s","t">>
      [] n = tim2 -> <<"t","i","m","2">>
      [] n = NOT_A_REAL_IRQ -> <<"n","o","t","_","a","_","r","e","a","l","_","i","r","q">>

\* The symbol __hopter_<lower>_trampoline.
TrampolineSymbol(lower) ==
    <<"_","_","h","o","p","t","e","r","_">> \o lower
        \o <<"_","t","r","a","m","p","o","l","i","n","e">>

\* C7: generated symbols.  A handler expansion returns, in this order, the
\* entry sequence exported under the IRQ name as written, calling the
\* symbol __hopter_<lowercase name>_trampoline; the dispatch trampoline
\* defined under that symbol, calling the declared function inside
\* catch_unwind; and the declaration as it was.  A main expansion returns
\* the unmangled trampoline __main_trampoline calling the declared
\* function, and the declaration as it was.
C7_GeneratedSymbols ==
    (Parsed /\ pc = "returned") =>
        IF macro = "handler"
        THEN LET N == attr.args[1].segments[1]
                 F == item.sig.ident
                 sym == TrampolineSymbol(SpeltLower(N)) IN
             /\ Len(output) = 3
             /\ output[1].kind = "entry"
             /\ output[1].export_name = N
             /\ output[1].handler_trampoline = sym
             /\ \E i \in 1..Len(output[1].asm) :
                   /\ output[1].asm[i].op = "bl"
                   /\ output[1].asm[i].ref = "handler_trampoline"
             /\ output[2].kind = "fn"
             /\ output[2].name = sym
             /\ \E i \in 1..Len(output[2].body) :
                   /\ output[2].body[i].call = "hopter::unwind::unw_catch::catch_unwind"
                   /\ output[2].body[i].arg = F
             /\ output[3] = [kind |-> "item", item |-> item]
        ELSE LET F == item.sig.ident IN
             /\ Len(output) = 2
             /\ output[1].kind = "fn"
             /\ output[1].no_mangle
             /\ output[1].name = <<"_","_","m","a","i","n","_","t","r","a","m","p","o","l","i","n","e">>
             /\ output[1].body[Len(output[1].body)].op = "call(*arg)"
             /\ output[1].body[Len(output[1].body)].callee = F
             /\ output[2] = [kind |-> "item", item |-> item]

\* C7 witness: `#[handler(TIM2)] fn tick_handler()` expanded.
C7_Witness ==
    /\ macro = "handler" /\ Parsed /\ pc = "returned"
    /\ local.irq = TIM2
    /\ item.sig.ident = <<"t","i","c","k","_","h","a","n","d","l","e","r">>
    /\ output[1].export_name = TIM2

\* The statements of the main trampoline with operation op.
MainStmts(op) ==
    {i \in 1..Len(output[1].body) : output[1].body[i].op = op}

\* The main trampoline loads the pointer once, sequentially consistent,
\* casts it to a pointer to ty, takes the box once and then calls the
\* declared function with the value.
MainTrampolineFor(ty) ==
    /\ \E l \in MainStmts("arg.load"), b \in MainStmts("alloc::boxed::Box::from_raw"),
          c \in MainStmts("call(*arg)") :
          /\ MainStmts("arg.load") = {l}
          /\ MainStmts("alloc::boxed::Box::from_raw") = {b}
          /\ MainStmts("call(*arg)") = {c}
          /\ l < b /\ b < c
          /\ output[1].body[l].ordering = "core::sync::atomic::Ordering::SeqCst"
          /\ output[1].body[l].cast = ty
          /\ output[1].body[c].callee = item.sig.ident

\* C10 as claimed: for every main function the check accepts, the
\* trampoline takes the box as a box of the type of the parameter.
C10_BoxOfParameterType ==
    (macro = "main" /\ item.parses /\ pc = "returned") =>
        MainTrampolineFor(item.sig.inputs[1])

\* C10 as amended: for every main function the check accepts, whatever the
\* type of its parameter, the trampoline loads the pointer once with SeqCst,
\* takes the box once as a box of cortex_m::Peripherals, and calls the
\* function by value with it.
C10_BoxOfPeripherals ==
    (macro = "main" /\ item.parses /\ pc = "returned") =>
        MainTrampolineFor("cortex_m::Peripherals")

\* C10 witness: a main function taking a u32 expanded.
C10_Witness ==
    /\ macro = "main" /\ item.parses /\ pc = "returned"
    /\ item.sig.inputs = <<"u32">>
    /\ output[1].body[1].cast = "cortex_m::Peripherals"

-----------------------------------------------------------------------------
(* Properties of the generated code at run time (specification SpecRun).   *)

\* The fields the entry sequence sets for the handler.
HandlerTls == <<CONTIGUOUS_STACK_BOUNDARY, 0, 0>>

\* C8: the entry sequence never faults; while the dispatch trampoline and
\* the handler run, the TLS fields are the stack boundary, 0 and 0; when the
\* sequence ends they are what they were at entry, and it ends by loading
\* pc from the stack with the lr of entry, an EXC_RETURN value, with sp
\* where it was, whatever the trampoline left in r0-r3 and lr.
C8_EntrySequence ==
    /\ run.at \in {"entry", "trampoline", "handler", "exception_return"}
    /\ run.at \in {"trampoline", "handler"} => Tls(mem) = HandlerTls
    /\ (run.at = "entry" /\ ghost.trampoline_returned /\ run.ip > Len(EntryFrag.asm) - 1)
          => Tls(mem) = ghost.tls0
    /\ run.at = "exception_return" =>
          /\ Tls(mem) = ghost.tls0
          /\ ghost.trampoline_returned
          /\ cpu.pc = ghost.lr0
          /\ cpu.sp = ghost.sp0
          /\ IsPopPc(CurrentIns)

\* C8 witness: the sequence returned from the exception although the
\* trampoline left other values in r0 and lr, and the TLS fields at entry
\* were not those it sets for the handler.
C8_Witness ==
    /\ run.at = "exception_return"
    /\ ghost.tls0 # HandlerTls
    /\ ghost.tls0[1] # 0
    /\ cpu.lr # ghost.lr0
    /\ Tls(mem) = ghost.tls0

\* C9: the handler starts with the flag clear and the value of before
\* bound to the snapshot; a panic of the handler ends in the trampoline,
\* which goes on to return as after a normal return; and when the
\* trampoline has returned the flag is what it was at its start.
C9_DispatchTrampoline ==
    /\ run.at = "handler" =>
          /\ ~isr_unwinding
          /\ run.env = {<<PREV, ghost.flag0>>}
    /\ ghost.outcome = "panicked" =>
          /\ run.at \in {"trampoline", "entry", "exception_return"}
          /\ run.at = "trampoline" => run.ip > 2
    /\ ghost.trampoline_returned =>
          /\ ghost.outcome \in {"returned", "panicked"}
          /\ ghost.flag_at_return = ghost.flag0
          /\ isr_unwinding = ghost.flag0

\* C9 witness: the flag was set when the interrupt came, the handler
\* panicked, and the trampoline returned with the flag set again.
C9_Witness ==
    /\ ghost.trampoline_returned
    /\ ghost.outcome = "panicked"
    /\ ghost.flag0
    /\ ~ghost.flag_in_handler
    /\ isr_unwinding

-----------------------------------------------------------------------------
\* The signature check of `main` let the declaration through.
MainSigAccepted == pc \in {"checked", "trampoline_formatted", "returned"}

\* The rules check_main_function_signature looks at before the async
\* qualifier hold: one parameter, and nothing, () or ! returned.
MainPassesBeforeAsync(sig) ==
    /\ Len(sig.inputs) = 1
    /\ sig.output \in {RetDefault, RetTuple(0), RetNever}

\* The rules check_handler_function_signature looks at before the async
\* qualifier hold: no parameter, nothing or () returned, and no calling
\* convention written on the declaration.
HandlerPassesBeforeAsync(sig) ==
    /\ Len(sig.inputs) = 0
    /\ IsUnitOrAbsent(sig.output)
    /\ ~sig.abi.some

\* C11 as stated: every async declaration fails with the async reason of
\* its macro, whatever the rest of the signature is.
C11_AsyncReasonRegardless ==
    /\ (macro = "main" /\ item.parses /\ item.sig.asyncness) =>
          /\ ~MainSigAccepted
          /\ pc = "panicked" => panic_msg = "Main function cannot be 'async'."
    /\ (macro = "handler" /\ Parsed /\ item.sig.asyncness) =>
          /\ ~HandlerSigAccepted
          /\ pc = "panicked" => panic_msg = "Handler function cannot be 'async'."

\* C11: every async declaration is rejected by the signature check of its
\* macro, and the reason is the async one exactly if the rules checked before
\* the qualifier hold (parameter count and return type, and for a handler no
\* declared calling convention); the unsafe and variadic qualifiers, which
\* are checked later, never change the reason.
C11_AsyncRejected ==
    /\ (macro = "main" /\ item.parses /\ item.sig.asyncness) =>
          /\ ~MainSigAccepted
          /\ pc = "panicked" =>
                (panic_msg = "Main function cannot be 'async'."
                    <=> MainPassesBeforeAsync(item.sig))
    /\ (macro = "handler" /\ Parsed /\ item.sig.asyncness) =>
          /\ ~HandlerSigAccepted
          /\ pc = "panicked" =>
                (panic_msg = "Handler function cannot be 'async'."
                    <=> HandlerPassesBeforeAsync(item.sig))

\* C11 witness: an async handler with two parameters that returns a value
\* was rejected, for its parameters.
C11_Witness ==
    /\ macro = "handler" /\ Parsed /\ pc = "panicked"
    /\ item.sig.asyncness /\ Len(item.sig.inputs) = 2
    /\ item.sig.output = RetOther
    /\ panic_msg = "Handler function should not have any parameter."

-----------------------------------------------------------------------------
Rule(broken, reason) == [broken |-> broken, reason |-> reason]

\* The rules of a main function in the order they are documented, each with
\* the reason check_main_function_signature gives for it.
MainRules(sig) ==
    << Rule(Len(sig.inputs) # 1,
            "Main function must receive one argument of type 'cortex_m::Peripherals'."),
       Rule(sig.output \notin {RetDefault, RetTuple(0), RetNever},
            "Handler's return type must be ()."),
       Rule(sig.asyncness, "Main function cannot be 'async'."),
       Rule(sig.unsafety, "Main function must be safe."),
       Rule(sig.variadic, "Handler function cannot be variadic.") >>

\* The rules of a handler in the order they are documented, each with the
\* reason check_handler_function_signature gives for it; the calling
\* convention rule is broken by a convention other than the native one.
HandlerRules(sig) ==
    << Rule(Len(sig.inputs) # 0, "Handler function should not have any parameter."),
       Rule(~IsUnitOrAbsent(sig.output), "Handler's return type must be ()."),
       Rule(ForeignAbi(sig.abi), "Handler function must have Rust ABI."),
       Rule(sig.asyncness, "Handler function cannot be 'async'."),
       Rule(sig.variadic, "Handler function cannot be variadic.") >>

\* The reason of the first broken rule, or Ok if none is broken.
FirstReason(rules) ==
    LET broken == {i \in DOMAIN rules : rules[i].broken} IN
    IF broken = {} THEN Ok
    ELSE rules[CHOOSE i \in broken : \A j \in broken : i <= j].reason

\* C13: each check gives the one reason of the first broken rule in the
\* documented order (main: parameter count, return type, async, unsafe,
\* variadic; handler: parameter count, return type, calling convention,
\* async, variadic) and lets the declaration through if no rule is broken;
\* so a main function without exactly one parameter always gets the
\* parameter count reason.
C13_FirstViolatedRule ==
    /\ (macro = "main" /\ item.parses /\ pc \notin {"start", "item_parsed"}) =>
          LET r == FirstReason(MainRules(item.sig)) IN
          /\ IF r = Ok THEN MainSigAccepted
             ELSE pc = "panicked" /\ panic_msg = r
          /\ Len(item.sig.inputs) # 1 =>
                panic_msg = "Main function must receive one argument of type 'cortex_m::Peripherals'."
    /\ (macro = "handler" /\ Parsed
            /\ pc \notin {"start", "item_parsed", "attr_parsed"}) =>
          LET r == FirstReason(HandlerRules(item.sig)) IN
          IF r = Ok THEN HandlerSigAccepted
          ELSE pc = "panicked" /\ panic_msg = r

-----------------------------------------------------------------------------
\* The reasons of a list of rules.
Reasons(rules) == {rules[i].reason : i \in DOMAIN rules}

\* No two rules of the list have the same reason.
OwnReasons(rules) ==
    \A i, j \in DOMAIN rules : i # j => rules[i].reason # rules[j].reason

\* C14: within each check no two rules have the same reason, and the reason
\* alone tells the kind of declaration: a reason given to a main function is
\* never one that the handler check gives, and a signature reason given to a
\* handler is never one that the main check gives.
C14_ReasonNamesRule ==
    /\ item.parses =>
          OwnReasons(MainRules(item.sig)) /\ OwnReasons(HandlerRules(item.sig))
    /\ (macro = "main" /\ item.parses /\ pc = "panicked") =>
          panic_msg \notin Reasons(HandlerRules(item.sig))
    /\ (macro = "handler" /\ Parsed /\ HandlerSigRejected) =>
          panic_msg \notin Reasons(MainRules(item.sig))

-----------------------------------------------------------------------------
\* The step is the resumption of a preempted handler.
Resumes == Len(preempted') < Len(preempted)

\* C12, in the states: with interrupts nesting up to MaxNesting deep and
\* preempting at any instruction boundary, no entry sequence faults or
\* leaves through a wrong address, the user's handler of every level runs
\* with the TLS fields (boundary, 0, 0), and when the outermost handler has
\* returned the TLS fields and the stack pointer are those the outermost
\* interrupt found.
C12_Levels ==
    /\ run.at \notin {"fault", "branch"}
    /\ run.at = "handler" => Tls(mem) = HandlerTls
    /\ (run.at = "exception_return" /\ preempted = <<>>) =>
          /\ Tls(mem) = ghost.tls0
          /\ cpu.sp = ghost.sp0

\* C12, in the steps: the preempted code resumes where it was, with the TLS
\* fields, its stack and r0-r3, lr and sp exactly as they were when it was
\* preempted.
C12_Resumption ==
    Resumes =>
        LET p == preempted[Len(preempted)] IN
        /\ run' = p.run
        /\ Tls(mem') = p.tls
        /\ ActiveStack(mem', cpu'.sp) = p.stack
        /\ cpu' = p.cpu

\* C12: nested interrupts leave the TLS fields as the entry sequences need
\* them: every user's handler sees (boundary, 0, 0), every preempted
\* sequence finds the TLS fields and its stack as it left them, and after
\* the outermost return the TLS fields are those from before the outermost
\* interrupt.
C12_NestedInterrupts == []C12_Levels /\ [][C12_Resumption]_vars

\* C12 witness: the outermost handler has returned after interrupts nested
\* MaxNesting deep preempted it, and the TLS fields, which are not those of
\* a handler, are back.
C12_Witness ==
    /\ run.at = "exception_return" /\ preempted = <<>>
    /\ ghost.nested = MaxNesting
    /\ ghost.tls0 # HandlerTls
    /\ Tls(mem) = ghost.tls0

=============================================================================
